---- MODULE Spec2Model ----
(***************************************************************************)
(* Rule evaluation and notification delivery core of vc-notify-bot.        *)
(*                                                                         *)
(*   voiceStateUpdate listener  (index.ts, bootstrap)                      *)
(*     -> VoiceStateHandler.handle        (handlers/voiceState.ts)         *)
(*     -> RuleService.listRules           (services/ruleService.ts)        *)
(*     -> Repository.findEnabledByGuild   (repositories/...Repository.ts)  *)
(*     -> NotifyService.sendNotification  (services/notifyService.ts)      *)
(*                                                                         *)
(* The program is single threaded: one action of the model is the code     *)
(* that runs between two suspension points (await) of one async function.  *)
(* Time is counted in ticks of TickMs milliseconds; a timer whose delay    *)
(* has run out fires before time advances further.                         *)
(***************************************************************************)
EXTENDS Integers, Sequences, FiniteSets, TLC

\* ------------------------------------------------------------------------
\* Bounds of the model
\* ------------------------------------------------------------------------
MaxRules == 2
MaxEvents == 1
MaxJoins == 3
MaxCalls == 2
MaxSends == 3
MaxTraced == 2
MaxToggleSteps == 4
MaxLimitSteps == 3
NearLimit == 2
MaxRuleCalls == 2
MaxQueries == 1
MaxOrderCalls == 3
MaxAgain == 2
MaxRemark == 2
MaxShutdownCalls == 2
MaxRejoinSteps == 3
MaxSettle == 2
TicksPerWindow == 1

\* ------------------------------------------------------------------------
\* Program constants
\* ------------------------------------------------------------------------
DUPLICATE_WINDOW_DEFAULT_MS == 5000
RATE_LIMIT_FALLBACK_DELAY_MS == 1000
baseDelay == 1000
maxRetries == 1
RULES_PER_GUILD_LIMIT == 50
NAME_MIN_LENGTH == 1
NAME_MAX_LENGTH == 50
WATCHED_CHANNEL_MIN == 1
WATCHED_CHANNEL_MAX == 10
TARGET_USER_MAX == 50

\* One tick of model time, in milliseconds.
TickMs == DUPLICATE_WINDOW_DEFAULT_MS \div TicksPerWindow

NULL == "null"
Guilds == {"g1"}
Users == {"u1", "u2"}
VoiceChannels == {"v1", "v2"}
NotifyChannels == {"d1", "d2"}

VARIABLES
  rules,                \* notification_rules table, rows in rowid order
  handlers,             \* handle() invocations in flight
  calls,                \* sendNotification() invocations in flight
  recentNotifications,  \* Map<string, TimerHandle> of the notify service
  timers,               \* pending TTL timers: handle -> [key, left]
  budget,               \* events (or direct calls) still to come
  failed,               \* some handle() met a failure (lookup or send) so far
  unhandled,            \* a rejection of handle() reached no catch
  trace,                \* history: call -> the remote answers it got so far
  wiped,                \* history: triples whose mark cleanup() removed
  audit,                \* history: the operations of the rule service and
                        \* the evaluations of handle(), in the order made
  pending,              \* calls of the rule service between two awaits
  table,                \* notification_rules as the database file holds it,
                        \* where the rows are not all of the repository's
                        \* writing (rules is then what is read from it)
  markAge               \* (destination, user, watched channel) ->
                        \* [age, why, by]: ticks since a message of intent
                        \* by was delivered for the triple (why = "sent") or
                        \* its resolution failed for good ("permanent")

vars == <<rules, handlers, calls, recentNotifications, timers, budget,
          failed, unhandled, markAge, trace, wiped, audit,
          pending, table>>

\* ------------------------------------------------------------------------
\* Helpers
\* ------------------------------------------------------------------------
Range(s) == {s[i] : i \in DOMAIN s}

Drop(f, k) == [x \in (DOMAIN f) \ {k} |-> f[x]]

Put(f, k, v) == [x \in (DOMAIN f) \cup {k} |-> IF x = k THEN v ELSE f[x]]

\* A timer of ms milliseconds lasts this many ticks (rounded up).
msToTicks(ms) == (ms + TickMs - 1) \div TickMs

\* ------------------------------------------------------------------------
\* Rule store (repositories/notificationRuleRepository.ts)
\* ------------------------------------------------------------------------
\* Rows as mapRowToDomain returns them. ids and names are fixed per row
\* position (generateId gives a fresh id to every row).
RuleIds == <<"r1", "r2", "r3", "r4">>
RuleNames == <<"A", "B", "C", "D">>

WatchLists == {<<"v1">>, <<"v2">>}
TargetLists == {<<>>, <<"u1">>}

\* created_at of the rows: new Date() at insertion, the wall clock of the
\* host; two rows may share a millisecond and the clock may be set back.
StampSeqs(n) == [1..n -> 1..n]

Row(i, g, w, t, d, en, at) ==
  [id |-> RuleIds[i], guildId |-> g, name |-> RuleNames[i],
   watchedVoiceChannelIds |-> w, targetUserIds |-> t,
   notificationChannelId |-> d, enabled |-> en, createdAt |-> at,
   updatedAt |-> at]

StoreStates ==
  UNION {
    {[i \in 1..n |-> Row(i, g[i], w[i], t[i], d[i], en[i], at[i])] :
       g \in [1..n -> Guilds], w \in [1..n -> WatchLists],
       t \in [1..n -> TargetLists], d \in [1..n -> NotifyChannels],
       en \in [1..n -> BOOLEAN], at \in StampSeqs(n)}
    : n \in 0..MaxRules}

\* Insertion of row r into the sorted sequence s, after the rows whose
\* created_at is not later (rows are scanned in rowid order).
RECURSIVE insertByCreatedAt(_, _)
insertByCreatedAt(s, r) ==
  IF s = <<>> THEN <<r>>
  ELSE IF s[Len(s)].createdAt <= r.createdAt THEN Append(s, r)
  ELSE Append(insertByCreatedAt(SubSeq(s, 1, Len(s) - 1), r), s[Len(s)])

\* Variant: no ORDER BY, rows come in rowid order.
rowidOrder(rows) == rows

RECURSIVE orderByCreatedAt(_)
orderByCreatedAt(rows) ==
  IF rows = <<>> THEN <<>>
  ELSE insertByCreatedAt(orderByCreatedAt(SubSeq(rows, 1, Len(rows) - 1)),
                         rows[Len(rows)])

\* SELECT * WHERE id = $id: no row or one (id is the primary key).
findById(id) == SelectSeq(rules, LAMBDA r : r.id = id)

\* The columns as the table keeps them and as mapRowToDomain reads them.
\* Date.prototype.toISOString and new Date(text): the text keeps the
\* milliseconds of the date.
toISOString(date) == [iso |-> date]

Date(text) == text.iso

\* JSON.stringify of an array of strings, and parseJsonArray: the array of
\* the text, every item as a string, or the empty array for any other text.
JSONstringify(list) == [json |-> "array", items |-> list]

\* Variant: the text is never taken for an array.
parseToEmpty(raw) == <<>>

parseJsonArray(raw) == IF raw.json = "array" THEN raw.items ELSE <<>>

\* enabled ? 1 : 0, and Boolean(row.enabled).
flag(enabled) == IF enabled THEN 1 ELSE 0

Boolean(n) == n # 0

\* Variant: the list columns are handed on as the text they are.
mapRowUnparsed(row) ==
  [id |-> row.id, guildId |-> row.guild_id, name |-> row.name,
   watchedVoiceChannelIds |-> row.watched_voice_channel_ids,
   targetUserIds |-> row.target_user_ids,
   notificationChannelId |-> row.notification_channel_id,
   enabled |-> Boolean(row.enabled),
   createdAt |-> Date(row.created_at), updatedAt |-> Date(row.updated_at)]

mapRowToDomain(row) ==
  [id |-> row.id, guildId |-> row.guild_id, name |-> row.name,
   watchedVoiceChannelIds |-> parseJsonArray(row.watched_voice_channel_ids),
   targetUserIds |-> parseJsonArray(row.target_user_ids),
   notificationChannelId |-> row.notification_channel_id,
   enabled |-> Boolean(row.enabled),
   createdAt |-> Date(row.created_at), updatedAt |-> Date(row.updated_at)]

\* The rows id names, by position in the table.
RowsOf(id) == {i \in DOMAIN rules : rules[i].id = id}

\* Variant: the statement sets enabled = 1 whatever $enabled is.
enableStmt(id, enabled, now) ==
  [changes |-> Cardinality(RowsOf(id)),
   rows |-> [i \in DOMAIN rules |->
               IF rules[i].id = id
                 THEN [rules[i] EXCEPT !.enabled = TRUE,
                                       !.updatedAt = Date(toISOString(now))]
               ELSE rules[i]]]

\* UPDATE ... SET enabled = $enabled, updated_at = $updatedAt WHERE id = $id,
\* and result.changes.
toggleStmt(id, enabled, now) ==
  [changes |-> Cardinality(RowsOf(id)),
   rows |-> [i \in DOMAIN rules |->
               IF rules[i].id = id
                 THEN [rules[i] EXCEPT !.enabled = Boolean(flag(enabled)),
                                       !.updatedAt = Date(toISOString(now))]
               ELSE rules[i]]]

\* UPDATE ... SET name, watched_voice_channel_ids, target_user_ids,
\* notification_channel_id, updated_at WHERE id = $id, and result.changes.
updateStmt(id, updates, now) ==
  [changes |-> Cardinality(RowsOf(id)),
   rows |-> [i \in DOMAIN rules |->
               IF rules[i].id = id
                 THEN [rules[i] EXCEPT
                         !.name = updates.name,
                         !.watchedVoiceChannelIds =
                           parseJsonArray(JSONstringify(updates.watchedVoiceChannelIds)),
                         !.targetUserIds =
                           parseJsonArray(JSONstringify(updates.targetUserIds)),
                         !.notificationChannelId = updates.notificationChannelId,
                         !.updatedAt = Date(toISOString(now))]
               ELSE rules[i]]]

\* Variant: the statement deletes nothing.
deletesNothing(id) == rules

\* DELETE FROM notification_rules WHERE id = $id
deleteStmt(id) == SelectSeq(rules, LAMBDA r : r.id # id)

\* generateId(): randomUUID, an id that was never given before. The rows a
\* store starts with are "r1", "r2", ...; the ones created are "n1", "n2",
\* ... in the order of their creation.
generateId ==
  "n" \o ToString(1 + Cardinality({j \in DOMAIN audit :
                                     audit[j].op = "createRule"
                                       /\ audit[j].error = "none"}))

\* insertStmt.run(...) of repository.createRule: the table with the new row.
insertStmt(input, now) ==
  Append(rules,
         mapRowToDomain(
           [id |-> generateId, guild_id |-> input.guildId, name |-> input.name,
            watched_voice_channel_ids |-> JSONstringify(input.watchedVoiceChannelIds),
            target_user_ids |-> JSONstringify(input.targetUserIds),
            notification_channel_id |-> input.notificationChannelId,
            enabled |-> flag(input.enabled),
            created_at |-> toISOString(now), updated_at |-> toISOString(now)]))

\* Variant: SELECT COUNT(*) ... WHERE guild_id = $guildId AND enabled = 1
countEnabledByGuild(guildId) ==
  Len(SelectSeq(rules, LAMBDA r : r.guildId = guildId /\ r.enabled))

\* SELECT COUNT(*) AS count WHERE guild_id = $guildId
countByGuild(guildId) == Len(SelectSeq(rules, LAMBDA r : r.guildId = guildId))

\* Variant: the enabled column is not part of the query.
findByGuildWhateverEnabled(guildId) ==
  SelectSeq(rules, LAMBDA r : r.guildId = guildId)

\* SELECT * WHERE guild_id = $guildId ORDER BY created_at ASC
findByGuild(guildId) ==
  orderByCreatedAt(SelectSeq(rules, LAMBDA r : r.guildId = guildId))

\* SELECT * WHERE guild_id = $guildId AND enabled = 1 ORDER BY created_at ASC
findEnabledByGuild(guildId) ==
  orderByCreatedAt(SelectSeq(rules, LAMBDA r : r.guildId = guildId /\ r.enabled))

\* ------------------------------------------------------------------------
\* Rule service (services/ruleService.ts)
\* ------------------------------------------------------------------------
\* Variant: includeDisabled is not looked at.
listEnabledOnly(guildId, includeDisabled) == findEnabledByGuild(guildId)

listRules(guildId, includeDisabled) ==
  IF includeDisabled THEN findByGuild(guildId) ELSE findEnabledByGuild(guildId)

\* The ids of the model that SNOWFLAKE_REGEX (17 to 19 digits) accepts; any
\* other string ("x", "") is one it rejects.
Owners == {"g1", "g2"}
Snowflakes == Owners \cup Users \cup VoiceChannels \cup NotifyChannels

isSnowflake(s) == s \in Snowflakes

\* String.prototype.trim on the strings of the model: " " is all blank.
trim(s) == IF s = " " THEN "" ELSE s

When(violated, message) == IF violated THEN <<message>> ELSE <<>>

\* validateCommonRuleFields: the violations, in the order they are pushed.
\* (The inputs are arrays and strings, as their TypeScript types say.)
validateCommonRuleFields(input) ==
  LET name == trim(input.name)
      watchedVoiceChannelIds == [i \in DOMAIN input.watchedVoiceChannelIds |->
                                   trim(input.watchedVoiceChannelIds[i])]
      targetUserIds == [i \in DOMAIN input.targetUserIds |->
                          trim(input.targetUserIds[i])]
  IN When(name = "" \/ Len(name) < NAME_MIN_LENGTH \/ Len(name) > NAME_MAX_LENGTH,
          "name must be between 1 and 50 characters.")
     \o When(Len(watchedVoiceChannelIds) < WATCHED_CHANNEL_MIN
               \/ Len(watchedVoiceChannelIds) > WATCHED_CHANNEL_MAX,
             "watchedVoiceChannelIds must contain between 1 and 10 items.")
     \o When(\E i \in DOMAIN watchedVoiceChannelIds :
               ~isSnowflake(watchedVoiceChannelIds[i]),
             "watchedVoiceChannelIds must contain valid snowflake IDs.")
     \o When(Len(targetUserIds) > TARGET_USER_MAX,
             "targetUserIds must not exceed 50 items.")
     \o When(\E i \in DOMAIN targetUserIds : ~isSnowflake(targetUserIds[i]),
             "targetUserIds must contain valid snowflake IDs.")
     \o When(~isSnowflake(trim(input.notificationChannelId)),
             "notificationChannelId must be a valid snowflake ID.")

\* Variant: validation stops at the first violation.
firstViolationOnly(input) ==
  SubSeq(validateCommonRuleFields(input)
           \o When(~isSnowflake(trim(input.guildId)),
                   "guildId must be a valid snowflake ID."),
         1, 1)

validateCreateRuleInput(input) ==
  validateCommonRuleFields(input)
    \o When(~isSnowflake(trim(input.guildId)), "guildId must be a valid snowflake ID.")

\* The input createRule hands on: every string trimmed.
normalized(input) ==
  [guildId |-> trim(input.guildId), name |-> trim(input.name),
   watchedVoiceChannelIds |-> [i \in DOMAIN input.watchedVoiceChannelIds |->
                                 trim(input.watchedVoiceChannelIds[i])],
   targetUserIds |-> [i \in DOMAIN input.targetUserIds |->
                        trim(input.targetUserIds[i])],
   notificationChannelId |-> trim(input.notificationChannelId)]

\* createRule(input) at time now: the error it throws ("none": it returns the
\* created rule), the violations it found, and the rows of the store
\* afterwards.
createRule(input, now) ==
  LET violations == validateCreateRuleInput(input)
  IN IF Len(violations) > 0
       THEN [error |-> "RuleValidationError", violations |-> violations,
             rows |-> rules]
     ELSE IF countByGuild(normalized(input).guildId) >= RULES_PER_GUILD_LIMIT
       THEN [error |-> "RuleLimitExceededError", violations |-> violations,
             rows |-> rules]
     ELSE [error |-> "none", violations |-> violations,
           rows |-> insertStmt([guildId |-> normalized(input).guildId,
                                name |-> normalized(input).name,
                                watchedVoiceChannelIds |->
                                  normalized(input).watchedVoiceChannelIds,
                                targetUserIds |-> normalized(input).targetUserIds,
                                notificationChannelId |->
                                  normalized(input).notificationChannelId,
                                enabled |-> TRUE],
                               now)]

\* The optional argument of toggleRule: undefined, or a boolean.
Undefined == [given |-> FALSE, value |-> FALSE]
Explicit(b) == [given |-> TRUE, value |-> b]

\* toggleRule(id, enabled): the error it throws ("none": it returns the
\* toggled rule), the rows of the store afterwards, and the state it read
\* (was) and wrote (enabled).
toggleRule(id, enabled, now) ==
  LET existing == findById(id)
  IN IF Len(existing) = 0
       THEN [error |-> "RuleNotFoundError", rows |-> rules,
             was |-> FALSE, enabled |-> FALSE]
     ELSE LET nextState == IF enabled.given THEN enabled.value
                           ELSE ~existing[1].enabled
              toggled == toggleStmt(id, nextState, now)
          IN [error |-> IF toggled.changes = 0 THEN "RuleRepositoryConflictError"
                        ELSE "none",
              rows |-> toggled.rows,
              was |-> existing[1].enabled, enabled |-> nextState]

\* ------------------------------------------------------------------------
\* Join-event evaluation (handlers/voiceState.ts)
\* ------------------------------------------------------------------------
\* Variant: only a null new channel returns early (a move is evaluated).
returnsEarlyOnLeaveOnly(oldChannelId, newChannelId) ==
  newChannelId = NULL

\* Lines 25-32: handle returns before the lookup unless the previous channel
\* is null and the new one is not.
returnsEarly(oldChannelId, newChannelId) ==
  oldChannelId # NULL \/ newChannelId = NULL

includes(list, x) == x \in Range(list)

\* Variant: a rule without target users applies to no user.
filterTargetedOnly(rs, voiceChannelId, userId) ==
  SelectSeq(rs, LAMBDA rule :
    /\ includes(rule.watchedVoiceChannelIds, voiceChannelId)
    /\ includes(rule.targetUserIds, userId))

filterApplicableRules(rs, voiceChannelId, userId) ==
  SelectSeq(rs, LAMBDA rule :
    IF ~includes(rule.watchedVoiceChannelIds, voiceChannelId) THEN FALSE
    ELSE IF Len(rule.targetUserIds) = 0 THEN TRUE
    ELSE includes(rule.targetUserIds, userId))

NotifyPayload(rule, guildId, voiceChannelId, userId) ==
  [guildId |-> guildId, voiceChannelId |-> voiceChannelId, userId |-> userId,
   notificationChannelId |-> rule.notificationChannelId,
   ruleId |-> rule.id, ruleName |-> rule.name]

\* The loop of createUniqueNotifications from rule i on, sentChannelIds being
\* the destinations already claimed.
RECURSIVE uniqueFrom(_, _, _, _, _, _)
uniqueFrom(rs, i, sentChannelIds, guildId, voiceChannelId, userId) ==
  IF i > Len(rs) THEN <<>>
  ELSE IF rs[i].notificationChannelId \in sentChannelIds
    THEN uniqueFrom(rs, i + 1, sentChannelIds, guildId, voiceChannelId, userId)
    ELSE <<NotifyPayload(rs[i], guildId, voiceChannelId, userId)>>
         \o uniqueFrom(rs, i + 1,
                       sentChannelIds \cup {rs[i].notificationChannelId},
                       guildId, voiceChannelId, userId)

\* Variant: one intent per candidate rule, destinations not compared.
createAllNotifications(rs, guildId, voiceChannelId, userId) ==
  [i \in 1..Len(rs) |-> NotifyPayload(rs[i], guildId, voiceChannelId, userId)]

createUniqueNotifications(rs, guildId, voiceChannelId, userId) ==
  uniqueFrom(rs, 1, {}, guildId, voiceChannelId, userId)

\* ------------------------------------------------------------------------
\* Notification dispatch (services/notifyService.ts)
\* ------------------------------------------------------------------------
\* duplicateTtlMs = Math.max(0, deps.duplicateTtlMs ?? DEFAULT); bootstrap
\* passes no duplicateTtlMs.
duplicateTtlMs ==
  IF DUPLICATE_WINDOW_DEFAULT_MS > 0 THEN DUPLICATE_WINDOW_DEFAULT_MS ELSE 0

TtlTicks == msToTicks(duplicateTtlMs)

\* Variant: a key without the watched channel.
keyWithoutChannel(payload) ==
  <<payload.notificationChannelId, payload.userId>>

\* Variant: a key without the user.
keyWithoutUser(payload) ==
  payload.notificationChannelId \o ":" \o payload.voiceChannelId

createNotificationKey(payload) ==
  payload.notificationChannelId \o ":" \o payload.userId \o ":"
    \o payload.voiceChannelId

\* Variant: no check of the map.
neverDuplicate(key) == FALSE

isDuplicate(key) == duplicateTtlMs > 0 /\ key \in DOMAIN recentNotifications

\* Errors a remote call rejects with. status 0 and code "none" stand for a
\* field the error object does not have; a code of digits is a number (a
\* Discord API code), a code of letters a string (a network error code);
\* retryAfter is [kind, ms] with kind "number", "missing", "NaN" or
\* "Infinity".
NoRetryAfter == [kind |-> "missing", ms |-> 0]

Err(status, code) == [status |-> status, code |-> code, retryAfter |-> NoRetryAfter]

RateLimit(kind, ms) ==
  [status |-> 429, code |-> "none", retryAfter |-> [kind |-> kind, ms |-> ms]]

Errors ==
  { Err(404, "none"), Err(403, "none"), Err(0, "10007"), Err(500, "none"),
    Err(0, "ETIMEDOUT"), Err(0, "none"),
    RateLimit("missing", 0), RateLimit("number", 0), RateLimit("number", 3000) }

isRateLimitError(error) == error.status = 429

isTransientNetworkErrorCode(code) ==
  code \in {"ETIMEDOUT", "ECONNRESET", "ECONNREFUSED", "ENOTFOUND", "EHOSTUNREACH"}

\* Variant: nothing is retried.
neverRetriable(error) == FALSE

\* Variant: everything is retried.
alwaysRetriable(error) == TRUE

isRetriableError(error) ==
  IF isRateLimitError(error) THEN TRUE
  ELSE IF error.code # "none" /\ isTransientNetworkErrorCode(error.code) THEN TRUE
  ELSE error.status >= 500 /\ error.status < 600

\* Variant: retryAfter is used as it comes.
retryAfterUnchecked(error) == error.retryAfter.ms

getRetryAfterMs(error) ==
  IF error.retryAfter.kind = "number"
    THEN IF error.retryAfter.ms > 0 THEN error.retryAfter.ms ELSE 0
    ELSE RATE_LIMIT_FALLBACK_DELAY_MS

getBackoffDelayMs(attempt) == baseDelay * (attempt + 1)

isPermanentDiscordError(error) ==
  IF error.status = 404 \/ error.status = 403 THEN TRUE
  ELSE error.code \in {"10003", "10007", "50001", "50013"}

\* What a remote lookup answers: the entity, another kind of entity (a
\* channel of the wrong type, or null), or an error.
Found == [kind |-> "found"]
Other == [kind |-> "other"]
Cached == [kind |-> "cached"]
Thrown(error) == [kind |-> "error", error |-> error]

ThrownSet == {Thrown(e) : e \in Errors}

\* Variant: every failure of a lookup is permanent.
alwaysPermanent(error) == "permanent"

FetchFailure(error) ==
  IF isPermanentDiscordError(error) THEN "permanent" ELSE "temporary"

\* fetchGuild: any failure is thrown again.
fetchGuild(answer) ==
  IF answer.kind = "error" THEN "throw" ELSE "success"

\* Variant: any failure of the fetch gives up for good.
fetchVoiceChannelOrNull(answer) ==
  IF answer.kind \in {"cached", "found"} THEN "success" ELSE "permanent"

\* fetchVoiceChannel: cache hit, else fetch; a non-voice answer is permanent.
fetchVoiceChannel(answer) ==
  IF answer.kind = "cached" THEN "success"
  ELSE IF answer.kind = "found" THEN "success"
  ELSE IF answer.kind = "error" THEN FetchFailure(answer.error)
  ELSE "permanent"

fetchMember(answer) ==
  IF answer.kind = "error" THEN FetchFailure(answer.error) ELSE "success"

fetchNotificationChannel(answer) ==
  IF answer.kind = "error" THEN FetchFailure(answer.error)
  ELSE IF answer.kind = "other" THEN "permanent"
  ELSE "success"

\* Variant: nothing is tracked.
trackNothing(key) == [recent |-> recentNotifications, timers |-> timers]

\* Variant: the timer the key has is left pending.
trackWithoutCancel(key) ==
  LET handle == <<key, CHOOSE n \in 1..(Cardinality(DOMAIN timers) + 1) :
                         <<key, n>> \notin DOMAIN timers>>
  IN [recent |-> Put(recentNotifications, key, handle),
      timers |-> Put(timers, handle, [key |-> key, left |-> TtlTicks])]

\* trackNotification(key): the map and the timers afterwards.
trackNotification(key) ==
  IF duplicateTtlMs <= 0 THEN [recent |-> recentNotifications, timers |-> timers]
  ELSE LET kept == IF key \in DOMAIN recentNotifications
                     THEN Drop(timers, recentNotifications[key])
                     ELSE timers
           handle == <<key, CHOOSE n \in 1..(Cardinality(DOMAIN kept) + 1) :
                              <<key, n>> \notin DOMAIN kept>>
       IN [recent |-> Put(recentNotifications, key, handle),
           timers |-> Put(kept, handle, [key |-> key, left |-> TtlTicks])]

\* ------------------------------------------------------------------------
\* State machine
\* ------------------------------------------------------------------------
Settled(c) == c.pc \in {"resolved", "rejected"}

CallsOf(e) == {id \in DOMAIN calls : id[1] = e}

AllSettled(e) == \A id \in CallsOf(e) : Settled(calls[id])

\* Code that runs to its end in one turn of the event loop, before any other
\* event, answer or timer: handle after Promise.allSettled has its results,
\* the promise chain of the listener after handle returned, and the caller
\* of a sendNotification that settled.
Idle ==
  /\ \A e \in DOMAIN handlers : handlers[e].pc # "return" /\ ~AllSettled(e)
  /\ \A id \in CallsOf(0) : ~Settled(calls[id])

Triple(payload) ==
  <<payload.notificationChannelId, payload.userId, payload.voiceChannelId>>

\* A message for the triple was delivered (why = "sent"), or its resolution
\* failed for good (why = "permanent"), less than a window ago, and no such
\* event came after it.
InWindow(triple, why) ==
  /\ triple \in DOMAIN markAge
  /\ markAge[triple].why = why
  /\ markAge[triple].age < TtlTicks

\* What last happened to the triple, and how long ago: inside the window,
\* exactly one window ago (the timer is due), or longer.
Since(triple) ==
  IF triple \notin DOMAIN markAge THEN [why |-> "none", phase |-> "never"]
  ELSE [why |-> markAge[triple].why,
        phase |-> IF markAge[triple].age < TtlTicks THEN "in"
                  ELSE IF markAge[triple].age = TtlTicks THEN "due"
                  ELSE "elapsed"]

Mark(payload, why) ==
  Put(markAge, Triple(payload), [age |-> 0, why |-> why, by |-> payload.ruleId])

\* The failure a remote lookup answered with, in the words of the
\* specification.
FailureKind(answer) ==
  IF answer.kind = "other" THEN "wrongType"
  ELSE IF answer.kind # "error" THEN "none"
  ELSE IF answer.error.status = 404 \/ answer.error.code \in {"10003", "10007"}
    THEN "notFound"
  ELSE IF answer.error.status = 403 \/ answer.error.code \in {"50001", "50013"}
    THEN "accessDenied"
  ELSE "otherError"

\* The transition an event reports, as the specification names it.
transition(oldChannelId, newChannelId) ==
  IF oldChannelId = NULL /\ newChannelId # NULL THEN "join"
  ELSE IF oldChannelId # NULL /\ newChannelId = NULL THEN "leave"
  ELSE IF oldChannelId # NULL /\ newChannelId # NULL /\ oldChannelId # newChannelId
    THEN "move"
  ELSE "other"

\* The call sendNotification(payload) up to its first remote request:
\* suppressed, or waiting for client.guilds.fetch. start: what had happened
\* to its triple when the call began; left: the milliseconds left of the
\* delay sendWithRetry waits for.
sendNotification(payload) ==
  LET key == createNotificationKey(payload)
      dup == isDuplicate(key)
  IN [payload |-> payload, key |-> key,
      pc |-> IF dup THEN "resolved" ELSE "fetchGuild",
      attempt |-> 0, left |-> 0, sends |-> 0,
      result |-> IF dup THEN "duplicate" ELSE "none",
      start |-> Since(Triple(payload))]

\* A handle() that has begun, before it looked anything up.
Handle(guildId, userId, oldChannelId, newChannelId) ==
  [guildId |-> guildId, userId |-> userId, voiceChannelId |-> newChannelId,
   kind |-> transition(oldChannelId, newChannelId), pc |-> "return",
   lookedUp |-> FALSE, lookupFailed |-> FALSE, intents |-> <<>>,
   errorsLogged |-> 0, outcome |-> "resolved", afterFailure |-> failed]

\* Variant: no catch, the failure of listRules leaves handle.
rethrowLookupError(h) ==
  [h EXCEPT !.lookedUp = TRUE, !.lookupFailed = TRUE, !.outcome = "rejected"]

\* Variant: the catch returns without logging.
swallowLookupError(h) ==
  [h EXCEPT !.lookedUp = TRUE, !.lookupFailed = TRUE]

\* Lines 40-46: the catch around listRules logs and returns.
catchLookupError(h) ==
  [h EXCEPT !.lookedUp = TRUE, !.lookupFailed = TRUE, !.errorsLogged = 1]

\* Variant: Promise.all instead of Promise.allSettled, a rejection is thrown.
rethrowRejected(h, rejected) ==
  [h EXCEPT !.pc = "return",
            !.outcome = IF rejected > 0 THEN "rejected" ELSE "resolved"]

\* Lines 71-81: one logger.error per rejected result; handle returns.
logRejected(h, rejected) ==
  [h EXCEPT !.pc = "return", !.errorsLogged = rejected]

\* index.ts, .catch of the listener: a rejection of handle is logged there.
listenerCatches(outcome) == TRUE

freshEvent == CHOOSE e \in 1..(Cardinality(DOMAIN handlers) + 1) : e \notin DOMAIN handlers

\* client.on("voiceStateUpdate", ...) -> handle(oldState, newState), up to
\* its return or to the await of Promise.allSettled. listRules reads the
\* store synchronously (bun:sqlite) and its promise settles in the same turn
\* of the event loop, so no other event or remote answer comes between the
\* event and the calls of sendNotification. dbOk: whether the store answers.
VoiceStateUpdate(guildId, userId, oldChannelId, newChannelId, dbOk) ==
  LET e == freshEvent
      h == Handle(guildId, userId, oldChannelId, newChannelId)
      found == IF dbOk THEN listRules(guildId, FALSE) ELSE <<>>
      candidates == filterApplicableRules(found, newChannelId, userId)
      uniqueNotifications ==
        createUniqueNotifications(candidates, guildId, newChannelId, userId)
  IN
  /\ Idle
  /\ ~unhandled
  /\ budget > 0
  /\ budget' = budget - 1
  /\ IF returnsEarly(oldChannelId, newChannelId)
       THEN /\ handlers' = Put(handlers, e, h)
            /\ UNCHANGED calls
     ELSE IF ~dbOk
       THEN /\ handlers' = Put(handlers, e, catchLookupError(h))
            /\ UNCHANGED calls
     ELSE IF Len(candidates) = 0 \/ Len(uniqueNotifications) = 0
       THEN /\ handlers' = Put(handlers, e, [h EXCEPT !.lookedUp = TRUE])
            /\ UNCHANGED calls
     ELSE /\ Cardinality(DOMAIN calls) + Len(uniqueNotifications) <= MaxCalls
          /\ handlers' = Put(handlers, e,
               [h EXCEPT !.lookedUp = TRUE, !.pc = "awaitSettled",
                         !.intents = uniqueNotifications])
          /\ calls' = [id \in DOMAIN calls
                            \cup {<<e, i>> : i \in 1..Len(uniqueNotifications)} |->
                         IF id \in DOMAIN calls THEN calls[id]
                         ELSE sendNotification(uniqueNotifications[id[2]])]
  /\ UNCHANGED <<rules, recentNotifications, timers, failed, unhandled, markAge>>

\* handle after Promise.allSettled.
HandleSettled(e) ==
  /\ e \in DOMAIN handlers
  /\ handlers[e].pc = "awaitSettled"
  /\ AllSettled(e)
  /\ handlers' = [handlers EXCEPT ![e] =
       logRejected(@, Cardinality({id \in CallsOf(e) : calls[id].pc = "rejected"}))]
  /\ UNCHANGED <<rules, calls, recentNotifications, timers, budget, failed,
                 unhandled, markAge>>

\* The promise of handle settled: the listener is done with the event.
ListenerDone(e) ==
  /\ e \in DOMAIN handlers
  /\ handlers[e].pc = "return"
  /\ handlers' = Drop(handlers, e)
  /\ calls' = [id \in (DOMAIN calls) \ CallsOf(e) |-> calls[id]]
  /\ failed' = (failed \/ handlers[e].errorsLogged > 0
                       \/ handlers[e].outcome = "rejected")
  /\ unhandled' = (unhandled \/ (handlers[e].outcome = "rejected"
                                  /\ ~listenerCatches(handlers[e].outcome)))
  /\ UNCHANGED <<rules, recentNotifications, timers, budget, markAge>>

\* --- sendNotification called directly (NotifyService on its own) ---------
\* One payload, one of another rule and owner for the same destination, user
\* and watched channel, and three that differ in one of these.
BasePayload ==
  [guildId |-> "g1", voiceChannelId |-> "v1", userId |-> "u1",
   notificationChannelId |-> "d1", ruleId |-> "r1", ruleName |-> "A"]

Payloads ==
  {BasePayload,
   [BasePayload EXCEPT !.guildId = "g2", !.ruleId = "r2", !.ruleName = "B"],
   [BasePayload EXCEPT !.voiceChannelId = "v2"],
   [BasePayload EXCEPT !.userId = "u2"],
   [BasePayload EXCEPT !.notificationChannelId = "d2"]}

Call(payload) ==
  /\ Idle
  /\ budget > 0
  /\ Cardinality(DOMAIN calls) < MaxCalls
  /\ budget' = budget - 1
  /\ LET i == CHOOSE n \in 1..(Cardinality(DOMAIN calls) + 1) : <<0, n>> \notin DOMAIN calls
     IN calls' = Put(calls, <<0, i>>, sendNotification(payload))
  /\ UNCHANGED <<rules, handlers, recentNotifications, timers, failed, unhandled,
                 markAge>>

\* The caller has the result of its call.
CallerDone(id) ==
  /\ id \in CallsOf(0)
  /\ Settled(calls[id])
  /\ calls' = Drop(calls, id)
  /\ UNCHANGED <<rules, handlers, recentNotifications, timers, budget, failed,
                 unhandled, markAge>>

\* --- sendNotification, one action per remote answer ----------------------
Sent == [kind |-> "sent"]

\* Variant: return without trackNotification.
SkipUntracked(id, cause) ==
  /\ calls' = [calls EXCEPT ![id].pc = "resolved", ![id].result = cause]
  /\ markAge' = Mark(calls[id].payload, "permanent")
  /\ UNCHANGED <<recentNotifications, timers>>

\* logger.warn, trackNotification(notificationKey), return. cause: the
\* failure the lookup met.
Skip(id, cause) ==
  LET tracked == trackNotification(calls[id].key)
  IN /\ calls' = [calls EXCEPT ![id].pc = "resolved", ![id].result = cause]
     /\ recentNotifications' = tracked.recent
     /\ timers' = tracked.timers
     /\ markAge' = Mark(calls[id].payload, "permanent")

\* Variant: the key is tracked before the throw.
ThrowTracked(id, cause) ==
  LET tracked == trackNotification(calls[id].key)
  IN /\ calls' = [calls EXCEPT ![id].pc = "rejected", ![id].result = cause]
     /\ recentNotifications' = tracked.recent
     /\ timers' = tracked.timers
     /\ UNCHANGED markAge

\* throw: the promise of sendNotification rejects.
Throw(id, cause) ==
  /\ calls' = [calls EXCEPT ![id].pc = "rejected", ![id].result = cause]
  /\ UNCHANGED <<recentNotifications, timers, markAge>>

Continue(id, pc) ==
  /\ calls' = [calls EXCEPT ![id].pc = pc]
  /\ UNCHANGED <<recentNotifications, timers, markAge>>

\* Variant: whatever the FetchResult, the call goes on to the next step.
ResolutionGoesOn(id, result, pc, answer) == Continue(id, pc)

\* What sendNotification does with a FetchResult.
Resolution(id, result, pc, answer) ==
  IF result = "permanent" THEN Skip(id, FailureKind(answer))
  ELSE IF result = "temporary" THEN Throw(id, FailureKind(answer))
  ELSE Continue(id, pc)

FetchGuildDone(id, answer) ==
  /\ Idle
  /\ id \in DOMAIN calls
  /\ calls[id].pc = "fetchGuild"
  /\ IF fetchGuild(answer) = "throw" THEN Throw(id, "guild")
     ELSE Continue(id, "fetchVoiceChannel")
  /\ UNCHANGED <<rules, handlers, budget, failed, unhandled>>

FetchVoiceChannelDone(id, answer) ==
  /\ Idle
  /\ id \in DOMAIN calls
  /\ calls[id].pc = "fetchVoiceChannel"
  /\ Resolution(id, fetchVoiceChannel(answer), "fetchMember", answer)
  /\ UNCHANGED <<rules, handlers, budget, failed, unhandled>>

FetchMemberDone(id, answer) ==
  /\ Idle
  /\ id \in DOMAIN calls
  /\ calls[id].pc = "fetchMember"
  /\ Resolution(id, fetchMember(answer), "fetchNotificationChannel", answer)
  /\ UNCHANGED <<rules, handlers, budget, failed, unhandled>>

\* On success createEmbed and the first channel.send of sendWithRetry follow.
FetchNotificationChannelDone(id, answer) ==
  /\ Idle
  /\ id \in DOMAIN calls
  /\ calls[id].pc = "fetchNotificationChannel"
  /\ LET result == fetchNotificationChannel(answer)
     IN IF result = "success"
          THEN /\ calls' = [calls EXCEPT ![id].pc = "send", ![id].sends = 1]
               /\ UNCHANGED <<recentNotifications, timers, markAge>>
          ELSE Resolution(id, result, "send", answer)
  /\ UNCHANGED <<rules, handlers, budget, failed, unhandled>>

\* sendWithRetry: the answer to channel.send of attempt calls[id].attempt.
\* Variant: a retriable error is retried whatever the attempt.
retryWhileRetriable(attempt, error) == isRetriableError(error)

\* canRetry of sendWithRetry.
canRetry(attempt, error) == attempt < maxRetries /\ isRetriableError(error)

SendDone(id, answer) ==
  /\ Idle
  /\ id \in DOMAIN calls
  /\ calls[id].pc = "send"
  /\ LET c == calls[id]
         tracked == trackNotification(c.key)
     IN IF answer.kind = "sent"
          THEN /\ calls' = [calls EXCEPT
                    ![id].pc = "resolved",
                    ![id].result = IF InWindow(Triple(c.payload), "sent")
                                     THEN "resent" ELSE "sent"]
               /\ recentNotifications' = tracked.recent
               /\ timers' = tracked.timers
               /\ markAge' = Mark(c.payload, "sent")
        ELSE IF ~canRetry(c.attempt, answer.error)
          THEN Throw(id, "send")
        ELSE /\ calls' = [calls EXCEPT
                  ![id].pc = "delay",
                  ![id].left = IF isRateLimitError(answer.error)
                                 THEN getRetryAfterMs(answer.error)
                                 ELSE getBackoffDelayMs(c.attempt)]
             /\ UNCHANGED <<recentNotifications, timers, markAge>>
  /\ UNCHANGED <<rules, handlers, budget, failed, unhandled>>

\* The delay of sendWithRetry ran out: the next attempt calls channel.send.
RetryDelayDone(id) ==
  /\ Idle
  /\ id \in DOMAIN calls
  /\ calls[id].pc = "delay"
  /\ calls[id].left = 0
  /\ calls' = [calls EXCEPT ![id].pc = "send", ![id].attempt = @ + 1,
                            ![id].sends = @ + 1]
  /\ UNCHANGED <<rules, handlers, recentNotifications, timers, budget, failed,
                 unhandled, markAge>>

\* The callback trackNotification scheduled: recentNotifications.delete(key).
TtlExpire(h) ==
  /\ Idle
  /\ h \in DOMAIN timers
  /\ timers[h].left = 0
  /\ recentNotifications' = Drop(recentNotifications, timers[h].key)
  /\ timers' = Drop(timers, h)
  /\ UNCHANGED <<rules, handlers, calls, budget, failed, unhandled, markAge>>

\* One tick of time passes; a timer that is due fires first.
Tick ==
  /\ Idle
  /\ \A h \in DOMAIN timers : timers[h].left > 0
  /\ \A id \in DOMAIN calls : calls[id].pc = "delay" => calls[id].left > 0
  /\ \/ DOMAIN timers # {}
     \/ \E t \in DOMAIN markAge : markAge[t].age <= TtlTicks
     \/ \E id \in DOMAIN calls : calls[id].pc = "delay"
  /\ timers' = [h \in DOMAIN timers |-> [timers[h] EXCEPT !.left = @ - 1]]
  /\ calls' = [id \in DOMAIN calls |->
                 IF calls[id].pc = "delay"
                   THEN [calls[id] EXCEPT !.left = IF @ > TickMs THEN @ - TickMs ELSE 0]
                 ELSE calls[id]]
  /\ markAge' = [t \in DOMAIN markAge |->
                   [markAge[t] EXCEPT !.age = IF @ > TtlTicks THEN @ ELSE @ + 1]]
  /\ UNCHANGED <<rules, handlers, recentNotifications, budget, failed, unhandled>>

\* The histories trace and wiped are kept only by the specification that
\* examines single calls (SpecSend below), audit only by those of the rule
\* service (SpecToggle, SpecLimit).
Untraced == UNCHANGED <<trace, wiped, audit, pending, table>>

Dispatch ==
  \/ \E id \in DOMAIN calls, answer \in {Found} \cup ThrownSet :
       FetchGuildDone(id, answer) /\ Untraced
  \/ \E id \in DOMAIN calls, answer \in {Cached, Found, Other} \cup ThrownSet :
       FetchVoiceChannelDone(id, answer) /\ Untraced
  \/ \E id \in DOMAIN calls, answer \in {Found} \cup ThrownSet :
       FetchMemberDone(id, answer) /\ Untraced
  \/ \E id \in DOMAIN calls, answer \in {Found, Other} \cup ThrownSet :
       FetchNotificationChannelDone(id, answer) /\ Untraced
  \/ \E id \in DOMAIN calls, answer \in {Sent} \cup ThrownSet :
       SendDone(id, answer) /\ Untraced
  \/ \E id \in DOMAIN calls : RetryDelayDone(id) /\ Untraced
  \/ \E h \in DOMAIN timers : TtlExpire(h) /\ Untraced
  \/ Tick /\ Untraced

\* The bot: events of the gateway, evaluated against the store.
Init ==
  /\ rules \in StoreStates
  /\ handlers = <<>>
  /\ calls = <<>>
  /\ recentNotifications = <<>>
  /\ timers = <<>>
  /\ budget = MaxEvents
  /\ failed = FALSE
  /\ unhandled = FALSE
  /\ markAge = <<>>
  /\ trace = <<>>
  /\ wiped = {}
  /\ audit = <<>>
  /\ pending = <<>>
  /\ table = <<>>

Next ==
  \/ \E g \in Guilds, u \in Users, o \in VoiceChannels \cup {NULL},
        n \in VoiceChannels \cup {NULL}, dbOk \in BOOLEAN :
       VoiceStateUpdate(g, u, o, n, dbOk) /\ Untraced
  \/ \E e \in DOMAIN handlers : HandleSettled(e) /\ Untraced
  \/ \E e \in DOMAIN handlers : ListenerDone(e) /\ Untraced
  \/ Dispatch

Spec == Init /\ [][Next]_vars

\* The bot over several events, with at most one rule in the store.
InitBot ==
  /\ rules \in {s \in StoreStates : Len(s) <= 1}
  /\ handlers = <<>>
  /\ calls = <<>>
  /\ recentNotifications = <<>>
  /\ timers = <<>>
  /\ budget = MaxJoins
  /\ failed = FALSE
  /\ unhandled = FALSE
  /\ markAge = <<>>
  /\ trace = <<>>
  /\ wiped = {}
  /\ audit = <<>>
  /\ pending = <<>>
  /\ table = <<>>

SpecBot == InitBot /\ [][Next]_vars

\* The notify service on its own: sendNotification called with any payload.
InitNotify ==
  /\ rules = <<>>
  /\ handlers = <<>>
  /\ calls = <<>>
  /\ recentNotifications = <<>>
  /\ timers = <<>>
  /\ budget = MaxSends
  /\ failed = FALSE
  /\ unhandled = FALSE
  /\ markAge = <<>>
  /\ trace = <<>>
  /\ wiped = {}
  /\ audit = <<>>
  /\ pending = <<>>
  /\ table = <<>>

NextNotify ==
  \/ \E payload \in Payloads : Call(payload) /\ Untraced
  \/ \E id \in DOMAIN calls : CallerDone(id) /\ Untraced
  \/ Dispatch

SpecNotify == InitNotify /\ [][NextNotify]_vars

\* The notify service, one call at a time, with the history of every call:
\* the answers it got, and whether cleanup() had removed the mark of its
\* triple when it began.
MoreErrors ==
  Errors \cup { RateLimit("number", -250), RateLimit("NaN", 0),
                RateLimit("Infinity", 0), RateLimit("string", 3000) }

MoreThrown == {Thrown(e) : e \in MoreErrors}

KeyOf(triple) ==
  createNotificationKey([notificationChannelId |-> triple[1], userId |-> triple[2],
                         voiceChannelId |-> triple[3]])

\* Variant: the timers are cancelled, the map is kept.
cleanupTimersOnly ==
  /\ recentNotifications' = recentNotifications
  /\ timers' = <<>>

\* cleanup(): cancelTimeout for every handle, recentNotifications.clear().
cleanup ==
  /\ recentNotifications' = <<>>
  /\ timers' = <<>>

Cleanup ==
  /\ Idle
  /\ cleanup
  /\ wiped' = wiped \cup {t \in DOMAIN markAge : KeyOf(t) \in DOMAIN recentNotifications}
  /\ UNCHANGED <<rules, handlers, calls, budget, failed, unhandled, markAge, trace,
                 audit, pending, table>>

CallAlone(payload) ==
  /\ calls = <<>>
  /\ Call(payload)
  /\ trace' = Put(trace, <<0, 1>>,
                  [wiped |-> Triple(payload) \in wiped, answers |-> <<>>])
  /\ UNCHANGED <<wiped, audit, pending, table>>

CallerSaw(id) ==
  /\ CallerDone(id)
  /\ trace' = Drop(trace, id)
  /\ UNCHANGED <<wiped, audit, pending, table>>

\* Call id got answer at step; a mark set by the step ends the effect of an
\* earlier cleanup on the triple.
Observe(id, step, answer) ==
  /\ trace' = [trace EXCEPT ![id].answers = Append(@, [step |-> step, answer |-> answer])]
  /\ wiped' = {t \in wiped : KeyOf(t) \notin DOMAIN recentNotifications'}
  /\ UNCHANGED <<audit, pending, table>>

InitSend ==
  /\ rules = <<>>
  /\ handlers = <<>>
  /\ calls = <<>>
  /\ recentNotifications = <<>>
  /\ timers = <<>>
  /\ budget = MaxTraced
  /\ failed = FALSE
  /\ unhandled = FALSE
  /\ markAge = <<>>
  /\ trace = <<>>
  /\ wiped = {}
  /\ audit = <<>>
  /\ pending = <<>>
  /\ table = <<>>

NextSend ==
  \/ \E payload \in Payloads : CallAlone(payload)
  \/ \E id \in DOMAIN calls : CallerSaw(id)
  \/ \E id \in DOMAIN calls, answer \in {Found} \cup MoreThrown :
       FetchGuildDone(id, answer) /\ Observe(id, "fetchGuild", answer)
  \/ \E id \in DOMAIN calls, answer \in {Cached, Found, Other} \cup MoreThrown :
       FetchVoiceChannelDone(id, answer) /\ Observe(id, "fetchVoiceChannel", answer)
  \/ \E id \in DOMAIN calls, answer \in {Found} \cup MoreThrown :
       FetchMemberDone(id, answer) /\ Observe(id, "fetchMember", answer)
  \/ \E id \in DOMAIN calls, answer \in {Found, Other} \cup MoreThrown :
       FetchNotificationChannelDone(id, answer)
         /\ Observe(id, "fetchNotificationChannel", answer)
  \/ \E id \in DOMAIN calls, answer \in {Sent} \cup MoreThrown :
       SendDone(id, answer) /\ Observe(id, "send", answer)
  \/ \E id \in DOMAIN calls : RetryDelayDone(id) /\ Untraced
  \/ \E h \in DOMAIN timers : TtlExpire(h) /\ Untraced
  \/ Tick /\ Untraced
  \/ Cleanup

SpecSend == InitSend /\ [][NextSend]_vars

\* The notify service called again and again for the intents of two users,
\* one call at a time; audit keeps how each call ended.
Intents == {BasePayload, [BasePayload EXCEPT !.userId = "u2"]}

CallerKept(id) ==
  /\ CallerDone(id)
  /\ trace' = Drop(trace, id)
  /\ audit' = Append(audit, [op |-> "sendNotification", id |-> id,
                             key |-> calls[id].key, pc |-> calls[id].pc,
                             result |-> calls[id].result,
                             sends |-> calls[id].sends])
  /\ UNCHANGED <<wiped, pending, table>>

InitAgain ==
  /\ rules = <<>>
  /\ handlers = <<>>
  /\ calls = <<>>
  /\ recentNotifications = <<>>
  /\ timers = <<>>
  /\ budget = MaxAgain
  /\ failed = FALSE
  /\ unhandled = FALSE
  /\ markAge = <<>>
  /\ trace = <<>>
  /\ wiped = {}
  /\ audit = <<>>
  /\ pending = <<>>
  /\ table = <<>>

NextAgain ==
  \/ \E payload \in Intents : CallAlone(payload)
  \/ \E id \in DOMAIN calls : CallerKept(id)
  \/ \E id \in DOMAIN calls, answer \in {Found} \cup ThrownSet :
       FetchGuildDone(id, answer) /\ Observe(id, "fetchGuild", answer)
  \/ \E id \in DOMAIN calls, answer \in {Cached, Found, Other} \cup ThrownSet :
       FetchVoiceChannelDone(id, answer) /\ Observe(id, "fetchVoiceChannel", answer)
  \/ \E id \in DOMAIN calls, answer \in {Found} \cup ThrownSet :
       FetchMemberDone(id, answer) /\ Observe(id, "fetchMember", answer)
  \/ \E id \in DOMAIN calls, answer \in {Found, Other} \cup ThrownSet :
       FetchNotificationChannelDone(id, answer)
         /\ Observe(id, "fetchNotificationChannel", answer)
  \/ \E id \in DOMAIN calls, answer \in {Sent} \cup ThrownSet :
       SendDone(id, answer) /\ Observe(id, "send", answer)
  \/ \E id \in DOMAIN calls : RetryDelayDone(id) /\ Untraced
  \/ \E h \in DOMAIN timers : TtlExpire(h) /\ Untraced
  \/ Tick /\ Untraced

SpecAgain == InitAgain /\ [][NextAgain]_vars

\* The notify service called one call at a time, with an event loop that
\* runs what is ready: a remote call that was awaited returns, a delay or
\* timer that is due fires, and time passes while something waits for it.
SettleIds == {<<0, 1>>}

Returned(id) ==
  \/ \E answer \in {Found} \cup ThrownSet :
       FetchGuildDone(id, answer) /\ Observe(id, "fetchGuild", answer)
  \/ \E answer \in {Cached, Found, Other} \cup ThrownSet :
       FetchVoiceChannelDone(id, answer) /\ Observe(id, "fetchVoiceChannel", answer)
  \/ \E answer \in {Found} \cup ThrownSet :
       FetchMemberDone(id, answer) /\ Observe(id, "fetchMember", answer)
  \/ \E answer \in {Found, Other} \cup ThrownSet :
       FetchNotificationChannelDone(id, answer)
         /\ Observe(id, "fetchNotificationChannel", answer)
  \/ \E answer \in {Sent} \cup MoreThrown :
       SendDone(id, answer) /\ Observe(id, "send", answer)

DelayFired(id) == RetryDelayDone(id) /\ Untraced

TimerFired == \E h \in DOMAIN timers : TtlExpire(h) /\ Untraced

TimePassed == Tick /\ Untraced

InitSettle ==
  /\ rules = <<>>
  /\ handlers = <<>>
  /\ calls = <<>>
  /\ recentNotifications = <<>>
  /\ timers = <<>>
  /\ budget = MaxSettle
  /\ failed = FALSE
  /\ unhandled = FALSE
  /\ markAge = <<>>
  /\ trace = <<>>
  /\ wiped = {}
  /\ audit = <<>>
  /\ pending = <<>>
  /\ table = <<>>

NextSettle ==
  \/ \E payload \in Intents : CallAlone(payload)
  \/ \E id \in SettleIds : CallerKept(id)
  \/ \E id \in SettleIds : Returned(id)
  \/ \E id \in SettleIds : DelayFired(id)
  \/ TimerFired
  \/ TimePassed

SpecSettle ==
  /\ InitSettle /\ [][NextSettle]_vars
  /\ \A id \in SettleIds : WF_vars(Returned(id)) /\ WF_vars(DelayFired(id))
  /\ WF_vars(TimerFired)
  /\ WF_vars(TimePassed)

\* The notify service with calls in flight together; audit keeps every
\* trackNotification: its key, and the time left on the timer it cancelled
\* (existing: the key had one).
Tracked(id) ==
  /\ audit' =
       IF calls'[id].pc = "resolved"
         THEN Append(audit,
                [op |-> "trackNotification", key |-> calls[id].key,
                 existing |-> calls[id].key \in DOMAIN recentNotifications,
                 left |-> IF calls[id].key \in DOMAIN recentNotifications
                            THEN timers[recentNotifications[calls[id].key]].left
                          ELSE 0])
       ELSE audit
  /\ UNCHANGED <<trace, wiped, pending, table>>

InitRemark ==
  /\ rules = <<>>
  /\ handlers = <<>>
  /\ calls = <<>>
  /\ recentNotifications = <<>>
  /\ timers = <<>>
  /\ budget = MaxRemark
  /\ failed = FALSE
  /\ unhandled = FALSE
  /\ markAge = <<>>
  /\ trace = <<>>
  /\ wiped = {}
  /\ audit = <<>>
  /\ pending = <<>>
  /\ table = <<>>

NextRemark ==
  \/ \E payload \in Intents : Call(payload) /\ Untraced
  \/ \E id \in DOMAIN calls : CallerDone(id) /\ Untraced
  \/ \E id \in DOMAIN calls, answer \in {Found} \cup ThrownSet :
       FetchGuildDone(id, answer) /\ Tracked(id)
  \/ \E id \in DOMAIN calls, answer \in {Cached, Found, Other} \cup ThrownSet :
       FetchVoiceChannelDone(id, answer) /\ Tracked(id)
  \/ \E id \in DOMAIN calls, answer \in {Found} \cup ThrownSet :
       FetchMemberDone(id, answer) /\ Tracked(id)
  \/ \E id \in DOMAIN calls, answer \in {Found, Other} \cup ThrownSet :
       FetchNotificationChannelDone(id, answer) /\ Tracked(id)
  \/ \E id \in DOMAIN calls, answer \in {Sent} \cup ThrownSet :
       SendDone(id, answer) /\ Tracked(id)
  \/ \E id \in DOMAIN calls : RetryDelayDone(id) /\ Untraced
  \/ \E h \in DOMAIN timers : TtlExpire(h) /\ Untraced
  \/ Tick /\ Untraced

SpecRemark == InitRemark /\ [][NextRemark]_vars

\* The notify service at shutdown: cleanup() of bootstrap runs once
\* (cleanedUp), while calls may be in flight; audit keeps which.
cleanedUp == \E j \in DOMAIN audit : audit[j].op = "cleanup"

CleanupAtShutdown ==
  /\ Idle
  /\ ~cleanedUp
  /\ cleanup
  /\ audit' = Append(audit, [op |-> "cleanup",
                             inFlight |-> {id \in DOMAIN calls : ~Settled(calls[id])}])
  /\ UNCHANGED <<rules, handlers, calls, budget, failed, unhandled, markAge, trace,
                 wiped, pending, table>>

InitShutdown ==
  /\ rules = <<>>
  /\ handlers = <<>>
  /\ calls = <<>>
  /\ recentNotifications = <<>>
  /\ timers = <<>>
  /\ budget = MaxShutdownCalls
  /\ failed = FALSE
  /\ unhandled = FALSE
  /\ markAge = <<>>
  /\ trace = <<>>
  /\ wiped = {}
  /\ audit = <<>>
  /\ pending = <<>>
  /\ table = <<>>

NextShutdown ==
  \/ \E payload \in Intents : Call(payload) /\ Untraced
  \/ \E id \in DOMAIN calls : CallerKept(id)
  \/ Dispatch
  \/ CleanupAtShutdown

SpecShutdown == InitShutdown /\ [][NextShutdown]_vars

\* --- the rule service used while the bot runs ----------------------------
\* toggleRule called by a command: findById and toggleEnabled read and write
\* the store synchronously, and the awaits between them settle in the same
\* turn of the event loop, so no event comes between.
ToggleRule(id, enabled, now) ==
  LET done == toggleRule(id, enabled, now)
  IN
  /\ Idle
  /\ ~unhandled
  /\ budget > 0
  /\ budget' = budget - 1
  /\ rules' = done.rows
  /\ audit' = Append(audit, [op |-> "toggleRule", id |-> id, error |-> done.error,
                             was |-> done.was, enabled |-> done.enabled])
  /\ UNCHANGED <<handlers, calls, recentNotifications, timers, failed, unhandled,
                 markAge, trace, wiped, pending, table>>

\* An event of the gateway, and what handle() made of it.
VoiceStateUpdateSeen(guildId, userId, oldChannelId, newChannelId, dbOk) ==
  /\ VoiceStateUpdate(guildId, userId, oldChannelId, newChannelId, dbOk)
  /\ LET h == handlers'[freshEvent]
     IN audit' = Append(audit,
          [op |-> "handle", guildId |-> guildId, userId |-> userId,
           voiceChannelId |-> newChannelId, kind |-> h.kind,
           lookupFailed |-> h.lookupFailed,
           by |-> {h.intents[i].ruleId : i \in DOMAIN h.intents}])
  /\ UNCHANGED <<trace, wiped, pending, table>>

\* The bot with one rule in the store, which commands toggle between events.
InitToggle ==
  /\ rules \in {s \in StoreStates : Len(s) = 1}
  /\ handlers = <<>>
  /\ calls = <<>>
  /\ recentNotifications = <<>>
  /\ timers = <<>>
  /\ budget = MaxToggleSteps
  /\ failed = FALSE
  /\ unhandled = FALSE
  /\ markAge = <<>>
  /\ trace = <<>>
  /\ wiped = {}
  /\ audit = <<>>
  /\ pending = <<>>
  /\ table = <<>>

\* The commands toggle the rule of the store, or one that is not there. The
\* events are joins; the store answers, the remote API resolves everything
\* and delivers.
ToggleCommands ==
  {<<"r1", Undefined>>, <<"r1", Explicit(TRUE)>>, <<"r1", Explicit(FALSE)>>,
   <<"r2", Undefined>>}

NextToggle ==
  \/ \E command \in ToggleCommands : ToggleRule(command[1], command[2], 2)
  \/ \E g \in Guilds, u \in Users, n \in VoiceChannels :
       VoiceStateUpdateSeen(g, u, NULL, n, TRUE)
  \/ \E e \in DOMAIN handlers : HandleSettled(e) /\ Untraced
  \/ \E e \in DOMAIN handlers : ListenerDone(e) /\ Untraced
  \/ \E id \in DOMAIN calls : FetchGuildDone(id, Found) /\ Untraced
  \/ \E id \in DOMAIN calls : FetchVoiceChannelDone(id, Found) /\ Untraced
  \/ \E id \in DOMAIN calls : FetchMemberDone(id, Found) /\ Untraced
  \/ \E id \in DOMAIN calls : FetchNotificationChannelDone(id, Found) /\ Untraced
  \/ \E id \in DOMAIN calls : SendDone(id, Sent) /\ Untraced
  \/ \E h \in DOMAIN timers : TtlExpire(h) /\ Untraced
  \/ Tick /\ Untraced

SpecToggle == InitToggle /\ [][NextToggle]_vars

\* The bot while users join, leave and join again: two rules, the second
\* for another watched channel or for another destination; the store
\* answers, the remote API resolves everything and delivers.
RejoinStores ==
  {<<Row(1, "g1", <<"v1">>, <<>>, "d1", TRUE, 1),
     Row(2, "g1", w, <<>>, d, TRUE, 2)>> :
     w \in WatchLists, d \in NotifyChannels}

InitRejoin ==
  /\ rules \in RejoinStores
  /\ handlers = <<>>
  /\ calls = <<>>
  /\ recentNotifications = <<>>
  /\ timers = <<>>
  /\ budget = MaxRejoinSteps
  /\ failed = FALSE
  /\ unhandled = FALSE
  /\ markAge = <<>>
  /\ trace = <<>>
  /\ wiped = {}
  /\ audit = <<>>
  /\ pending = <<>>
  /\ table = <<>>

NextRejoin ==
  \/ \E g \in Guilds, u \in Users,
        change \in ({NULL} \X VoiceChannels) \cup (VoiceChannels \X {NULL}) :
       VoiceStateUpdateSeen(g, u, change[1], change[2], TRUE)
  \/ \E e \in DOMAIN handlers : HandleSettled(e) /\ Untraced
  \/ \E e \in DOMAIN handlers : ListenerDone(e) /\ Untraced
  \/ \E id \in DOMAIN calls : FetchGuildDone(id, Found) /\ Untraced
  \/ \E id \in DOMAIN calls : FetchVoiceChannelDone(id, Found) /\ Untraced
  \/ \E id \in DOMAIN calls : FetchMemberDone(id, Found) /\ Untraced
  \/ \E id \in DOMAIN calls : FetchNotificationChannelDone(id, Found) /\ Untraced
  \/ \E id \in DOMAIN calls : SendDone(id, Sent) /\ Untraced
  \/ \E h \in DOMAIN timers : TtlExpire(h) /\ Untraced
  \/ Tick /\ Untraced

SpecRejoin == InitRejoin /\ [][NextRejoin]_vars

\* --- the rule service near the limit of an owner -------------------------
\* createRule called by a command: validation, countByGuild and the insert
\* run in one turn of the event loop.
CreateRule(input, now) ==
  LET done == createRule(input, now)
  IN
  /\ Idle
  /\ ~unhandled
  /\ budget > 0
  /\ budget' = budget - 1
  /\ rules' = done.rows
  /\ audit' = Append(audit, [op |-> "createRule", guildId |-> trim(input.guildId),
                             error |-> done.error, violations |-> done.violations])
  /\ UNCHANGED <<handlers, calls, recentNotifications, timers, failed, unhandled,
                 markAge, trace, wiped, pending, table>>

ValidInput(guildId) ==
  [guildId |-> guildId, name |-> "New", watchedVoiceChannelIds |-> <<"v1">>,
   targetUserIds |-> <<>>, notificationChannelId |-> "d1"]

CreateInputs ==
  {ValidInput("g1"), ValidInput("g2"),
   [ValidInput("g1") EXCEPT !.name = " "],
   [ValidInput("g1") EXCEPT !.watchedVoiceChannelIds = <<>>,
                            !.notificationChannelId = "x"],
   [ValidInput("g1") EXCEPT !.guildId = "x"]}

\* A store the rule service has filled: n rows of owner g1, the first k of
\* them disabled since, and m rows of owner g2 after them.
FilledStore(n, k, m) ==
  [i \in 1..(n + m) |->
     [id |-> "r" \o ToString(i), guildId |-> IF i <= n THEN "g1" ELSE "g2",
      name |-> "Old", watchedVoiceChannelIds |-> <<"v1">>, targetUserIds |-> <<>>,
      notificationChannelId |-> "d1", enabled |-> (i > k), createdAt |-> 1,
      updatedAt |-> 1]]

InitLimit ==
  /\ rules \in {FilledStore(RULES_PER_GUILD_LIMIT - below, k, m) :
                  below \in 0..NearLimit, k \in 0..NearLimit, m \in 0..1}
  /\ handlers = <<>>
  /\ calls = <<>>
  /\ recentNotifications = <<>>
  /\ timers = <<>>
  /\ budget = MaxLimitSteps
  /\ failed = FALSE
  /\ unhandled = FALSE
  /\ markAge = <<>>
  /\ trace = <<>>
  /\ wiped = {}
  /\ audit = <<>>
  /\ pending = <<>>
  /\ table = <<>>

NextLimit ==
  \/ \E input \in CreateInputs, now \in 1..2 : CreateRule(input, now)
  \/ \E command \in ToggleCommands : ToggleRule(command[1], command[2], 2)

SpecLimit == InitLimit /\ [][NextLimit]_vars

\* --- the rule service, from await to await -------------------------------
\* A call of the rule service runs to its first await, where it has asked the
\* repository its first question (the statement ran, bun:sqlite is
\* synchronous), and goes on when the promise has settled; calls that were
\* started together take turns at their awaits. pending holds what a call
\* was called with and what its first statement read; audit gets an entry
\* when a call settles: the error thrown ("none": the call returned value),
\* the number of statements it ran (queries), and the time the repository
\* read from the clock for it (at; 0: it read none).
Settle(op, args, read, queries, error, violations, value, at) ==
  Append(audit, [op |-> op, args |-> args, read |-> read, queries |-> queries,
                 error |-> error, violations |-> violations, value |-> value,
                 at |-> at])

freshCall == MaxRuleCalls - budget + 1

Begin(op, args, read) ==
  /\ pending' = Put(pending, freshCall, [op |-> op, args |-> args, read |-> read])
  /\ UNCHANGED <<rules, audit>>

RuleFrame ==
  UNCHANGED <<handlers, calls, recentNotifications, timers, failed, unhandled,
              markAge, trace, wiped, table>>

\* The fields updateRule hands on: every string trimmed.
normalizedFields(input) ==
  [name |-> trim(input.name),
   watchedVoiceChannelIds |-> [i \in DOMAIN input.watchedVoiceChannelIds |->
                                 trim(input.watchedVoiceChannelIds[i])],
   targetUserIds |-> [i \in DOMAIN input.targetUserIds |->
                        trim(input.targetUserIds[i])],
   notificationChannelId |-> trim(input.notificationChannelId)]

\* Variant: updateRule takes any input.
acceptsAnyUpdate(input) == <<>>

validateUpdateRuleInput(input) == validateCommonRuleFields(input)

\* getApplicableRules: the enabled rules of the guild, filtered.
\* Variant: the filter looks at the watched channels only.
rulesWatching(guildId, voiceChannelId, userId) ==
  SelectSeq(findEnabledByGuild(guildId),
            LAMBDA rule : includes(rule.watchedVoiceChannelIds, voiceChannelId))

getApplicableRules(guildId, voiceChannelId, userId) ==
  SelectSeq(findEnabledByGuild(guildId),
            LAMBDA rule :
              IF ~includes(rule.watchedVoiceChannelIds, voiceChannelId) THEN FALSE
              ELSE IF Len(rule.targetUserIds) = 0 THEN TRUE
              ELSE includes(rule.targetUserIds, userId))

\* createRule up to await repository.countByGuild.
CreateRuleCalled(input) ==
  LET violations == validateCreateRuleInput(input)
  IN
  /\ budget > 0
  /\ budget' = budget - 1
  /\ IF Len(violations) > 0
       THEN /\ audit' = Settle("createRule", [input |-> input], 0, 0,
                               "RuleValidationError", violations, <<>>, 0)
            /\ UNCHANGED <<rules, pending>>
     ELSE Begin("createRule", [input |-> input],
                countByGuild(normalized(input).guildId))
  /\ RuleFrame

\* createRule from the count on: the limit, repository.createRule (insert,
\* then select by id), return.
CreateRuleCounted(c, now) ==
  LET call == pending[c]
      input == normalized(call.args.input)
      id == generateId
      rows == insertStmt([guildId |-> input.guildId, name |-> input.name,
                          watchedVoiceChannelIds |-> input.watchedVoiceChannelIds,
                          targetUserIds |-> input.targetUserIds,
                          notificationChannelId |-> input.notificationChannelId,
                          enabled |-> TRUE], now)
      record == SelectSeq(rows, LAMBDA r : r.id = id)
  IN
  /\ call.op = "createRule"
  /\ pending' = Drop(pending, c)
  /\ IF call.read >= RULES_PER_GUILD_LIMIT
       THEN /\ audit' = Settle(call.op, call.args, call.read, 1,
                               "RuleLimitExceededError", <<>>, <<>>, 0)
            /\ UNCHANGED rules
     ELSE /\ rules' = rows
          /\ audit' = Settle(call.op, call.args, call.read, 3,
                             IF Len(record) = 0 THEN "Error" ELSE "none",
                             <<>>, record, now)
  /\ UNCHANGED budget
  /\ RuleFrame

\* updateRule up to await repository.findById.
UpdateRuleCalled(id, input) ==
  /\ budget > 0
  /\ budget' = budget - 1
  /\ Begin("updateRule", [id |-> id, input |-> input], findById(id))
  /\ RuleFrame

\* updateRule from the row on: not found, validation, repository.updateRule
\* (update, which throws an Error when no row changed, then select by id).
UpdateRuleRead(c, now) ==
  LET call == pending[c]
      violations == validateUpdateRuleInput(call.args.input)
      updated == updateStmt(call.args.id, normalizedFields(call.args.input), now)
      record == SelectSeq(updated.rows, LAMBDA r : r.id = call.args.id)
  IN
  /\ call.op = "updateRule"
  /\ pending' = Drop(pending, c)
  /\ IF Len(call.read) = 0
       THEN /\ audit' = Settle(call.op, call.args, call.read, 1,
                               "RuleNotFoundError", <<>>, <<>>, 0)
            /\ UNCHANGED rules
     ELSE IF Len(violations) > 0
       THEN /\ audit' = Settle(call.op, call.args, call.read, 1,
                               "RuleValidationError", violations, <<>>, 0)
            /\ UNCHANGED rules
     ELSE IF updated.changes = 0
       THEN /\ audit' = Settle(call.op, call.args, call.read, 2, "Error",
                               <<>>, <<>>, now)
            /\ UNCHANGED rules
     ELSE /\ rules' = updated.rows
          /\ audit' = Settle(call.op, call.args, call.read, 3, "none",
                             <<>>, record, now)
  /\ UNCHANGED budget
  /\ RuleFrame

\* deleteRule up to await repository.findById.
DeleteRuleCalled(id) ==
  /\ budget > 0
  /\ budget' = budget - 1
  /\ Begin("deleteRule", [id |-> id], findById(id))
  /\ RuleFrame

\* deleteRule from the row on: not found, or repository.deleteRule.
DeleteRuleRead(c) ==
  LET call == pending[c]
  IN
  /\ call.op = "deleteRule"
  /\ pending' = Drop(pending, c)
  /\ IF Len(call.read) = 0
       THEN /\ audit' = Settle(call.op, call.args, call.read, 1,
                               "RuleNotFoundError", <<>>, <<>>, 0)
            /\ UNCHANGED rules
     ELSE /\ rules' = deleteStmt(call.args.id)
          /\ audit' = Settle(call.op, call.args, call.read, 2, "none", <<>>, <<>>, 0)
  /\ UNCHANGED budget
  /\ RuleFrame

\* Variant: a toggle that changed no row is reported as a missing rule.
conflictAsNotFound(toggled) ==
  IF Len(toggled) = 0 THEN "RuleNotFoundError" ELSE "none"

\* toggleRule after repository.toggleEnabled: null is the conflict.
conflictIfNull(toggled) ==
  IF Len(toggled) = 0 THEN "RuleRepositoryConflictError" ELSE "none"

\* toggleRule up to await repository.findById.
ToggleRuleCalled(id, enabled) ==
  /\ budget > 0
  /\ budget' = budget - 1
  /\ Begin("toggleRule", [id |-> id, enabled |-> enabled], findById(id))
  /\ RuleFrame

\* toggleRule from the row on: not found, the next state, and
\* repository.toggleEnabled (update, null when no row changed, then select
\* by id).
ToggleRuleRead(c, now) ==
  LET call == pending[c]
      nextState == IF call.args.enabled.given THEN call.args.enabled.value
                   ELSE ~call.read[1].enabled
      toggled == toggleStmt(call.args.id, nextState, now)
      record == IF toggled.changes = 0 THEN <<>>
                ELSE SelectSeq(toggled.rows, LAMBDA r : r.id = call.args.id)
  IN
  /\ call.op = "toggleRule"
  /\ pending' = Drop(pending, c)
  /\ IF Len(call.read) = 0
       THEN /\ audit' = Settle(call.op, call.args, call.read, 1,
                               "RuleNotFoundError", <<>>, <<>>, 0)
            /\ UNCHANGED rules
     ELSE /\ rules' = toggled.rows
          /\ audit' = Settle(call.op, call.args, call.read,
                             IF toggled.changes = 0 THEN 2 ELSE 3,
                             conflictIfNull(record), <<>>, record, now)
  /\ UNCHANGED budget
  /\ RuleFrame

\* listRules and getApplicableRules ask one question when they are called;
\* what they return is decided by its answer.
ListRulesCalled(guildId, includeDisabled) ==
  /\ budget > 0
  /\ budget' = budget - 1
  /\ audit' = Settle("listRules",
                     [guildId |-> guildId, includeDisabled |-> includeDisabled],
                     0, 1, "none", <<>>, listRules(guildId, includeDisabled), 0)
  /\ UNCHANGED <<rules, pending>>
  /\ RuleFrame

GetApplicableRulesCalled(guildId, voiceChannelId, userId) ==
  /\ budget > 0
  /\ budget' = budget - 1
  /\ audit' = Settle("getApplicableRules",
                     [guildId |-> guildId, voiceChannelId |-> voiceChannelId,
                      userId |-> userId],
                     0, 1, "none", <<>>,
                     getApplicableRules(guildId, voiceChannelId, userId), 0)
  /\ UNCHANGED <<rules, pending>>
  /\ RuleFrame

\* deleteRule of the repository, called directly: deleteStmt.run, no more.
RepositoryDeleteRule(id) ==
  /\ budget > 0
  /\ budget' = budget - 1
  /\ rules' = deleteStmt(id)
  /\ audit' = Settle("repository.deleteRule", [id |-> id], 0, 1, "none",
                     <<>>, <<>>, 0)
  /\ UNCHANGED pending
  /\ RuleFrame

\* The inputs of createRule: valid ones (lists in either order, strings with
\* blanks around them aside), and ones that break one constraint, two, or
\* all seven.
Long(n, item) == [i \in 1..n |-> item]

RuleInputs ==
  CreateInputs \cup
  {[ValidInput("g1") EXCEPT !.watchedVoiceChannelIds = <<"v1", "v2">>,
                            !.targetUserIds = <<"u2", "u1">>],
   [ValidInput("g1") EXCEPT !.watchedVoiceChannelIds = <<"v2", "v1">>,
                            !.targetUserIds = <<"u1", "u2">>],
   [guildId |-> "x", name |-> "123456789012345678901234567890123456789012345678901",
    watchedVoiceChannelIds |-> Long(WATCHED_CHANNEL_MAX + 1, "x"),
    targetUserIds |-> Long(TARGET_USER_MAX + 1, "x"),
    notificationChannelId |-> ""]}

UpdateInputs ==
  {[name |-> "Renamed", watchedVoiceChannelIds |-> <<"v2">>,
    targetUserIds |-> <<"u1">>, notificationChannelId |-> "d2"],
   [name |-> " ", watchedVoiceChannelIds |-> <<"v2">>,
    targetUserIds |-> <<"x">>, notificationChannelId |-> "d2"]}

\* The ids the calls name: rows of the store, and "r0", which no row has.
CallIds == {"r1", "r2", "r0"}

\* Small stores: none, one rule of g1, or a second one of either owner.
RuleStores ==
  {<<>>}
  \cup {<<Row(1, "g1", <<"v1">>, <<>>, "d1", en, 1)>> : en \in BOOLEAN}
  \cup {<<Row(1, "g1", <<"v1">>, <<>>, "d1", en[1], 1),
          Row(2, g, <<"v1">>, <<"u1">>, "d1", en[2], 1)>> :
          en \in [1..2 -> BOOLEAN], g \in Owners}

InitRules ==
  /\ rules \in RuleStores
  /\ handlers = <<>>
  /\ calls = <<>>
  /\ recentNotifications = <<>>
  /\ timers = <<>>
  /\ budget = MaxRuleCalls
  /\ failed = FALSE
  /\ unhandled = FALSE
  /\ markAge = <<>>
  /\ trace = <<>>
  /\ wiped = {}
  /\ audit = <<>>
  /\ pending = <<>>
  /\ table = <<>>

NextRules ==
  \/ \E input \in RuleInputs : CreateRuleCalled(input)
  \/ \E c \in DOMAIN pending, now \in 2..3 : CreateRuleCounted(c, now)
  \/ \E id \in CallIds, input \in UpdateInputs : UpdateRuleCalled(id, input)
  \/ \E c \in DOMAIN pending, now \in 2..3 : UpdateRuleRead(c, now)
  \/ \E id \in CallIds : DeleteRuleCalled(id)
  \/ \E c \in DOMAIN pending : DeleteRuleRead(c)
  \/ \E id \in CallIds, enabled \in {Undefined, Explicit(TRUE), Explicit(FALSE)} :
       ToggleRuleCalled(id, enabled)
  \/ \E c \in DOMAIN pending, now \in 2..3 : ToggleRuleRead(c, now)
  \/ \E g \in Owners, v \in VoiceChannels, u \in Users :
       GetApplicableRulesCalled(g, v, u)
  \/ \E id \in CallIds : RepositoryDeleteRule(id)

SpecRules == InitRules /\ [][NextRules]_vars

\* The same calls on a store where owner g1 is at the limit or just below.
InitQuota ==
  /\ rules \in {FilledStore(RULES_PER_GUILD_LIMIT - below, k, 1) :
                  below \in 0..NearLimit, k \in 0..1}
  /\ handlers = <<>>
  /\ calls = <<>>
  /\ recentNotifications = <<>>
  /\ timers = <<>>
  /\ budget = MaxRuleCalls
  /\ failed = FALSE
  /\ unhandled = FALSE
  /\ markAge = <<>>
  /\ trace = <<>>
  /\ wiped = {}
  /\ audit = <<>>
  /\ pending = <<>>
  /\ table = <<>>

SpecQuota == InitQuota /\ [][NextRules]_vars

\* The queries of the rule service on any store of two owners.
OwnerStores ==
  UNION {
    {[i \in 1..n |-> Row(i, g[i], w[i], t[i], "d1", en[i], at[i])] :
       g \in [1..n -> Owners], w \in [1..n -> WatchLists],
       t \in [1..n -> TargetLists], en \in [1..n -> BOOLEAN], at \in StampSeqs(n)}
    : n \in 0..MaxRules}

InitQuery ==
  /\ rules \in OwnerStores
  /\ handlers = <<>>
  /\ calls = <<>>
  /\ recentNotifications = <<>>
  /\ timers = <<>>
  /\ budget = MaxQueries
  /\ failed = FALSE
  /\ unhandled = FALSE
  /\ markAge = <<>>
  /\ trace = <<>>
  /\ wiped = {}
  /\ audit = <<>>
  /\ pending = <<>>
  /\ table = <<>>

NextQuery ==
  \/ \E g \in Owners, includeDisabled \in BOOLEAN : ListRulesCalled(g, includeDisabled)
  \/ \E g \in Owners, v \in VoiceChannels, u \in Users :
       GetApplicableRulesCalled(g, v, u)

SpecQuery == InitQuery /\ [][NextQuery]_vars

\* Creates, updates, toggles and deletes of the rules of one owner, and the
\* lists read after them. The repository takes created_at from the clock of
\* the host (getCurrentTime = new Date()), which may stand still or be set
\* back between two calls.
OrderIds == {"r1", "n1"}

InitOrder ==
  /\ rules \in {<<>>, <<Row(1, "g1", <<"v1">>, <<>>, "d1", TRUE, 2)>>}
  /\ handlers = <<>>
  /\ calls = <<>>
  /\ recentNotifications = <<>>
  /\ timers = <<>>
  /\ budget = MaxOrderCalls
  /\ failed = FALSE
  /\ unhandled = FALSE
  /\ markAge = <<>>
  /\ trace = <<>>
  /\ wiped = {}
  /\ audit = <<>>
  /\ pending = <<>>
  /\ table = <<>>

NextOrder ==
  \/ CreateRuleCalled(ValidInput("g1"))
  \/ \E c \in DOMAIN pending, now \in 2..3 : CreateRuleCounted(c, now)
  \/ \E id \in OrderIds : UpdateRuleCalled(id, ValidInput("g1"))
  \/ \E c \in DOMAIN pending, now \in 2..3 : UpdateRuleRead(c, now)
  \/ \E id \in OrderIds : DeleteRuleCalled(id)
  \/ \E c \in DOMAIN pending : DeleteRuleRead(c)
  \/ \E id \in OrderIds : ToggleRuleCalled(id, Undefined)
  \/ \E c \in DOMAIN pending, now \in 2..3 : ToggleRuleRead(c, now)
  \/ \E includeDisabled \in BOOLEAN : ListRulesCalled("g1", includeDisabled)

SpecOrder == InitOrder /\ [][NextOrder]_vars

\* ------------------------------------------------------------------------
\* Reads of a database file whose rows are not all of the repository's
\* writing (edited by hand, written by another version, damaged)
\* ------------------------------------------------------------------------
\* Texts of a list column that JSON.parse throws on (v1,v2 or ["v1") and
\* that it parses to something that is no array ({"0":"v1"}, "v1", null).
NotJson == [json |-> "none"]
NotArray == [json |-> "object"]

WatchTexts == {JSONstringify(<<"v1">>), NotJson, NotArray}
TargetTexts == {JSONstringify(<<"u1">>), NotJson, NotArray}

StoredRow(i, g, w, t, en, at) ==
  [id |-> RuleIds[i], guild_id |-> g, name |-> RuleNames[i],
   watched_voice_channel_ids |-> w, target_user_ids |-> t,
   notification_channel_id |-> "d1", enabled |-> en,
   created_at |-> toISOString(at), updated_at |-> toISOString(at)]

StoredTables ==
  UNION {
    {[i \in 1..n |-> StoredRow(i, g[i], w[i], t[i], en[i], at[i])] :
       g \in [1..n -> Owners], w \in [1..n -> WatchTexts],
       t \in [1..n -> TargetTexts], en \in [1..n -> {0, 1}],
       at \in StampSeqs(n)}
    : n \in 0..MaxRules}

\* rows.map(mapRowToDomain)
rowsMap(rows) == [i \in DOMAIN rows |-> mapRowToDomain(rows[i])]

\* findById, findByGuild and findEnabledByGuild of the repository on table:
\* the rows of the statement, each through mapRowToDomain. (ORDER BY
\* created_at compares the ISO texts, which is the order of the dates, and
\* map keeps the order of the rows.)
storedFindById(id) ==
  rowsMap(SelectSeq(table, LAMBDA row : row.id = id))

storedFindByGuild(guildId) ==
  orderByCreatedAt(rowsMap(SelectSeq(table, LAMBDA row : row.guild_id = guildId)))

storedFindEnabledByGuild(guildId) ==
  orderByCreatedAt(
    rowsMap(SelectSeq(table, LAMBDA row : row.guild_id = guildId /\ row.enabled = 1)))

StoredRead(op, args, value) ==
  /\ budget > 0
  /\ budget' = budget - 1
  /\ audit' = Settle(op, args, 0, 1, "none", <<>>, value, 0)
  /\ UNCHANGED <<rules, pending>>
  /\ RuleFrame

FindByIdCalled(id) ==
  StoredRead("repository.findById", [id |-> id], storedFindById(id))

FindByGuildCalled(guildId) ==
  StoredRead("repository.findByGuild", [guildId |-> guildId],
             storedFindByGuild(guildId))

FindEnabledByGuildCalled(guildId) ==
  StoredRead("repository.findEnabledByGuild", [guildId |-> guildId],
             storedFindEnabledByGuild(guildId))

\* getApplicableRules of the rule service on what the repository reads from
\* table.
storedGetApplicableRules(guildId, voiceChannelId, userId) ==
  SelectSeq(storedFindEnabledByGuild(guildId),
            LAMBDA rule :
              IF ~includes(rule.watchedVoiceChannelIds, voiceChannelId) THEN FALSE
              ELSE IF Len(rule.targetUserIds) = 0 THEN TRUE
              ELSE includes(rule.targetUserIds, userId))

GetApplicableRulesStored(guildId, voiceChannelId, userId) ==
  StoredRead("getApplicableRules",
             [guildId |-> guildId, voiceChannelId |-> voiceChannelId,
              userId |-> userId],
             storedGetApplicableRules(guildId, voiceChannelId, userId))

\* handle for a join: listRules(guildId), which is findEnabledByGuild, then
\* filterApplicableRules.
JoinEvaluatedStored(guildId, voiceChannelId, userId) ==
  StoredRead("filterApplicableRules",
             [guildId |-> guildId, voiceChannelId |-> voiceChannelId,
              userId |-> userId],
             filterApplicableRules(storedFindEnabledByGuild(guildId),
                                   voiceChannelId, userId))

InitStored ==
  /\ rules = <<>>
  /\ handlers = <<>>
  /\ calls = <<>>
  /\ recentNotifications = <<>>
  /\ timers = <<>>
  /\ budget = MaxQueries
  /\ failed = FALSE
  /\ unhandled = FALSE
  /\ markAge = <<>>
  /\ trace = <<>>
  /\ wiped = {}
  /\ audit = <<>>
  /\ pending = <<>>
  /\ table \in StoredTables

NextStored ==
  \/ \E id \in CallIds : FindByIdCalled(id)
  \/ \E g \in Owners : FindByGuildCalled(g)
  \/ \E g \in Owners : FindEnabledByGuildCalled(g)
  \/ \E g \in Owners, v \in VoiceChannels, u \in Users :
       GetApplicableRulesStored(g, v, u)
  \/ \E g \in Owners, v \in VoiceChannels, u \in Users :
       JoinEvaluatedStored(g, v, u)

SpecStored == InitStored /\ [][NextStored]_vars

\* ------------------------------------------------------------------------
\* Properties
\* ------------------------------------------------------------------------
\* A rule of the store matches the join handler h is about.
Matches(rule, h) ==
  /\ rule.guildId = h.guildId
  /\ rule.enabled
  /\ h.voiceChannelId \in Range(rule.watchedVoiceChannelIds)
  /\ (rule.targetUserIds = <<>> \/ h.userId \in Range(rule.targetUserIds))

MatchingRules(h) == {i \in DOMAIN rules : Matches(rules[i], h)}

Destinations(h) == {rules[i].notificationChannelId : i \in MatchingRules(h)}

\* handle got the rules of a join.
Evaluated(h) == h.kind = "join" /\ h.lookedUp /\ ~h.lookupFailed

\* Every intent of handler e was handed to sendNotification, and nothing else.
Dispatched(e) ==
  /\ CallsOf(e) = {<<e, i>> : i \in 1..Len(handlers[e].intents)}
  /\ \A i \in 1..Len(handlers[e].intents) :
       calls[<<e, i>>].payload = handlers[e].intents[i]

\* C1: handle looks the rules up only for a join (previous channel null, new
\* channel not null); for a leave, a move or any other transition it returns
\* without the lookup and without a call of sendNotification.
C1_OnlyJoinEvaluates ==
  \A e \in DOMAIN handlers :
    handlers[e].kind # "join" =>
      /\ handlers[e].pc = "return"
      /\ ~handlers[e].lookedUp
      /\ handlers[e].intents = <<>>
      /\ CallsOf(e) = {}

C1_MoveReturned ==
  \E e \in DOMAIN handlers :
    handlers[e].kind = "move" /\ handlers[e].pc = "return"

\* C2: for one join, sendNotification is called exactly once for every
\* distinct destination among the rules that match, never twice for one
\* destination, and not at all when no rule matches; every intent carries
\* the guild, the joined channel and the user of the event.
C2_OncePerDestination ==
  \A e \in DOMAIN handlers :
    Evaluated(handlers[e]) =>
      LET h == handlers[e] IN
      /\ Len(h.intents) = Cardinality(Destinations(h))
      /\ {h.intents[i].notificationChannelId : i \in 1..Len(h.intents)}
           = Destinations(h)
      /\ \A i \in 1..Len(h.intents) :
           /\ h.intents[i].guildId = h.guildId
           /\ h.intents[i].voiceChannelId = h.voiceChannelId
           /\ h.intents[i].userId = h.userId
      /\ Dispatched(e)

C2_SharedDestination ==
  \E e \in DOMAIN handlers :
    /\ Evaluated(handlers[e])
    /\ Cardinality(MatchingRules(handlers[e])) = 2
    /\ Len(handlers[e].intents) = 1
    /\ Cardinality(CallsOf(e)) = 1

\* C3: when several matching rules share a destination, the one intent for
\* it carries the id and name of the rule created first among them.
C3_FirstCreatedWins ==
  \A e \in DOMAIN handlers :
    Evaluated(handlers[e]) =>
      LET h == handlers[e] IN
      \A k \in 1..Len(h.intents) :
        \E i \in MatchingRules(h) :
          /\ rules[i].id = h.intents[k].ruleId
          /\ rules[i].name = h.intents[k].ruleName
          /\ rules[i].notificationChannelId = h.intents[k].notificationChannelId
          /\ \A j \in MatchingRules(h) :
               rules[j].notificationChannelId = rules[i].notificationChannelId
                 => rules[i].createdAt <= rules[j].createdAt

C3_LaterRowCreatedFirst ==
  \E e \in DOMAIN handlers :
    /\ Evaluated(handlers[e])
    /\ MatchingRules(handlers[e]) = {1, 2}
    /\ rules[1].notificationChannelId = rules[2].notificationChannelId
    /\ rules[2].createdAt < rules[1].createdAt
    /\ Len(handlers[e].intents) = 1
    /\ handlers[e].intents[1].ruleId = rules[2].id

\* C4: a join with several intents calls sendNotification for each of them,
\* returns only when all of them settled, logs one error per rejection and
\* resolves whatever subset of them rejected.
C4_SettleAll ==
  \A e \in DOMAIN handlers :
    Len(handlers[e].intents) > 0 =>
      /\ \A i \in 1..Len(handlers[e].intents) : <<e, i>> \in DOMAIN calls
      /\ handlers[e].pc = "return" =>
           /\ AllSettled(e)
           /\ handlers[e].errorsLogged =
                Cardinality({id \in CallsOf(e) : calls[id].pc = "rejected"})
           /\ handlers[e].outcome = "resolved"

C4_OneRejectedOneSent ==
  \E e \in DOMAIN handlers :
    /\ handlers[e].pc = "return"
    /\ Len(handlers[e].intents) = 2
    /\ calls[<<e, 1>>].pc = "rejected"
    /\ calls[<<e, 2>>].result = "sent"
    /\ handlers[e].errorsLogged = 1

\* C5: when the lookup of the rules fails, handle logs one error, calls
\* sendNotification for nothing, and resolves.
C5_LookupFailureLogged ==
  \A e \in DOMAIN handlers :
    handlers[e].lookupFailed =>
      /\ handlers[e].pc = "return"
      /\ handlers[e].errorsLogged = 1
      /\ handlers[e].intents = <<>>
      /\ CallsOf(e) = {}
      /\ handlers[e].outcome = "resolved"

C5_LookupFailed ==
  \E e \in DOMAIN handlers :
    handlers[e].kind = "join" /\ handlers[e].lookupFailed

\* C6: whatever failed in the events so far (lookups, resolutions, sends),
\* no handle rejected and no rejection went unhandled, and a join that
\* arrives after a failure is looked up and dispatched like any other.
C6_SubscriptionSurvives ==
  /\ ~unhandled
  /\ \A e \in DOMAIN handlers :
       /\ handlers[e].outcome = "resolved"
       /\ (handlers[e].afterFailure /\ handlers[e].kind = "join"
             /\ ~handlers[e].lookupFailed) =>
            /\ handlers[e].lookedUp
            /\ Len(handlers[e].intents) = Cardinality(Destinations(handlers[e]))
            /\ Dispatched(e)

C6_DeliveredAfterFailure ==
  \E e \in DOMAIN handlers :
    /\ handlers[e].afterFailure
    /\ handlers[e].pc = "return"
    /\ Len(handlers[e].intents) = 1
    /\ calls[<<e, 1>>].result = "sent"

\* C7: a call for a triple a message was delivered for less than a window
\* ago returns at once, with no remote request; a call for a triple whose
\* last delivery is more than a window old is not suppressed, and delivers.
C7_DuplicateWindow ==
  \A id \in DOMAIN calls :
    /\ calls[id].start = [why |-> "sent", phase |-> "in"] =>
         /\ calls[id].pc = "resolved"
         /\ calls[id].result = "duplicate"
         /\ calls[id].sends = 0
    /\ calls[id].start = [why |-> "sent", phase |-> "elapsed"] =>
         calls[id].result # "duplicate"

C7_SentAgainAfterWindow ==
  \E id \in DOMAIN calls :
    /\ calls[id].start = [why |-> "sent", phase |-> "elapsed"]
    /\ calls[id].result = "sent"
    /\ calls[id].sends = 1

\* C8: for any interleaving of two calls with the same key, no message is
\* delivered for a triple a message was delivered for less than a window
\* ago.
C8_AtMostOneSendInWindow ==
  \A id \in DOMAIN calls : calls[id].result # "resent"

\* C9: a call is suppressed only if its (destination, user, watched channel)
\* was marked not more than a window ago, and it is suppressed whenever its
\* triple was marked less than a window ago, whatever rule, rule name or
\* guild the intent that marked it had.
C9_KeyIsTheTriple ==
  \A id \in DOMAIN calls :
    /\ calls[id].result = "duplicate" => calls[id].start.phase \in {"in", "due"}
    /\ calls[id].start.phase = "in" => calls[id].result = "duplicate"

C9_SuppressedByOtherRule ==
  \E id \in DOMAIN calls :
    /\ calls[id].result = "duplicate"
    /\ calls[id].start.phase = "in"
    /\ markAge[Triple(calls[id].payload)].by # calls[id].payload.ruleId
    /\ \E t \in DOMAIN markAge :
         t # Triple(calls[id].payload) /\ markAge[t].age < TtlTicks

\* C10: a lookup of the voice channel, the member or the destination that
\* fails for good (not found, access denied, wrong type) makes the call
\* resolve with no send and with its key in recentNotifications, and a call
\* for the same triple inside the window returns at once.
C10_PermanentFailureMarks ==
  \A id \in DOMAIN calls :
    /\ calls[id].result \in {"notFound", "accessDenied", "wrongType"} =>
         /\ calls[id].pc = "resolved"
         /\ calls[id].sends = 0
         /\ calls[id].key \in DOMAIN recentNotifications
         /\ recentNotifications[calls[id].key] \in DOMAIN timers
    /\ calls[id].start = [why |-> "permanent", phase |-> "in"] =>
         /\ calls[id].pc = "resolved"
         /\ calls[id].result = "duplicate"
         /\ calls[id].sends = 0

C10_SuppressedAfterPermanentFailure ==
  \E id \in DOMAIN calls :
    /\ calls[id].start = [why |-> "permanent", phase |-> "in"]
    /\ calls[id].result = "duplicate"

\* --- single calls, by their history (SpecSend) ---------------------------
Lookups == {"fetchGuild", "fetchVoiceChannel", "fetchMember", "fetchNotificationChannel"}

Answers(id) == trace[id].answers

Answered(id) == Len(Answers(id)) > 0

LastAnswer(id) == Answers(id)[Len(Answers(id))]

\* The answers channel.send gave to call id, in order.
SendAnswers(id) ==
  LET entries == SelectSeq(Answers(id), LAMBDA a : a.step = "send")
  IN [k \in 1..Len(entries) |-> entries[k].answer]

\* The failure channel.send answered with, in the words of the
\* specification.
SendFailureKind(answer) ==
  IF answer.kind # "error" THEN "none"
  ELSE IF answer.error.status = 429 THEN "rateLimit"
  ELSE IF answer.error.code \in {"ETIMEDOUT", "ECONNRESET", "ECONNREFUSED",
                                 "ENOTFOUND", "EHOSTUNREACH"}
          \/ (answer.error.status >= 500 /\ answer.error.status <= 599)
    THEN "transient"
  ELSE "fatal"

\* The delay a rate-limit error asks for.
SignalledDelay(error) ==
  IF error.retryAfter.kind = "number"
    THEN IF error.retryAfter.ms < 0 THEN 0 ELSE error.retryAfter.ms
    ELSE 1000

\* What is left of a delay of ms milliseconds after some ticks.
LeftOf(ms) == {ms, 0} \cup {ms - k * TickMs : k \in 1..(ms \div TickMs)}

C13_PermanentGuildFailureMarks ==
  \A id \in DOMAIN trace :
    (/\ Answered(id)
     /\ LastAnswer(id).step = "fetchGuild"
     /\ FailureKind(LastAnswer(id).answer) \in {"notFound", "accessDenied"}) =>
      /\ calls[id].pc = "resolved"
      /\ calls[id].key \in DOMAIN recentNotifications

\* C14: after a rate-limit error (status 429) on the first send the call
\* waits and sends exactly once more: it resolves if that send succeeds and
\* rejects if it fails, with 2 sends in either case and never a third.
C14_RateLimitRetriedOnce ==
  \A id \in DOMAIN trace :
    LET sent == SendAnswers(id) IN
    (Len(sent) > 0 /\ SendFailureKind(sent[1]) = "rateLimit") =>
      /\ Len(sent) <= 2
      /\ Len(sent) = 1 =>
           \/ calls[id].pc = "delay" /\ calls[id].sends = 1
           \/ calls[id].pc = "send" /\ calls[id].sends = 2 /\ calls[id].left = 0
      /\ Len(sent) = 2 =>
           /\ calls[id].sends = 2
           /\ calls[id].pc = IF sent[2].kind = "sent" THEN "resolved" ELSE "rejected"

C14_RetryFailedToo ==
  \E id \in DOMAIN trace :
    /\ Len(SendAnswers(id)) = 2
    /\ SendFailureKind(SendAnswers(id)[1]) = "rateLimit"
    /\ SendAnswers(id)[2].kind = "error"
    /\ calls[id].pc = "rejected"
    /\ calls[id].sends = 2

\* C15: a call whose sends keep failing with a transient network error
\* rejects only after the third send.
C15_ThreeAttempts ==
  \A id \in DOMAIN trace :
    (/\ calls[id].pc = "rejected"
     /\ Len(SendAnswers(id)) > 0
     /\ \A k \in 1..Len(SendAnswers(id)) :
          SendFailureKind(SendAnswers(id)[k]) = "transient") =>
      /\ Len(SendAnswers(id)) = 3
      /\ calls[id].sends = 3

\* C16: a failure of the first send that is neither a rate limit nor a
\* transient network or 5xx error rejects the call after that one send,
\* with no delay.
C16_FatalNotRetried ==
  \A id \in DOMAIN trace :
    (Len(SendAnswers(id)) > 0 /\ SendFailureKind(SendAnswers(id)[1]) = "fatal") =>
      /\ Len(SendAnswers(id)) = 1
      /\ calls[id].pc = "rejected"
      /\ calls[id].sends = 1
      /\ calls[id].attempt = 0
      /\ calls[id].left = 0

C16_ForbiddenSendRejected ==
  \E id \in DOMAIN trace :
    /\ SendAnswers(id) = <<Thrown(Err(403, "none"))>>
    /\ calls[id].pc = "rejected"

\* C17: the delay after a rate-limit error is its retryAfter when that is a
\* finite number (0 when negative), and 1000 ms when it is missing, not a
\* number, NaN or infinite.
C17_RetryAfterDelay ==
  \A id \in DOMAIN trace :
    (/\ calls[id].pc = "delay"
     /\ Len(SendAnswers(id)) = 1
     /\ SendFailureKind(SendAnswers(id)[1]) = "rateLimit") =>
      calls[id].left \in LeftOf(SignalledDelay(SendAnswers(id)[1].error))

C17_FallbackForNaN ==
  \E id \in DOMAIN trace :
    /\ calls[id].pc = "delay"
    /\ SendAnswers(id) = <<Thrown(RateLimit("NaN", 0))>>
    /\ calls[id].left = 1000

\* C18: every pending timer is the one recentNotifications holds for its
\* key and every key of the map has its timer pending, so that cleanup()
\* leaves no timer and no key; a call for a triple whose mark cleanup()
\* removed is not suppressed.
C18_CleanupForgets ==
  /\ \A h \in DOMAIN timers :
       /\ timers[h].key \in DOMAIN recentNotifications
       /\ recentNotifications[timers[h].key] = h
  /\ \A key \in DOMAIN recentNotifications : recentNotifications[key] \in DOMAIN timers
  /\ \A id \in DOMAIN trace : trace[id].wiped => calls[id].result # "duplicate"

C18_SentAgainAfterCleanup ==
  \E id \in DOMAIN trace :
    /\ trace[id].wiped
    /\ calls[id].start = [why |-> "sent", phase |-> "in"]
    /\ calls[id].result = "resent"

\* What toggleRule wrote for rule id, by position in audit.
Toggles(id) ==
  {j \in DOMAIN audit :
     audit[j].op = "toggleRule" /\ audit[j].id = id /\ audit[j].error = "none"}

\* Whether rule id was enabled when entry i of audit was made: what the last
\* toggle before it wrote, or what the store held from the start.
EnabledAt(i, id) ==
  LET before == {j \in Toggles(id) : j < i}
  IN IF before # {}
       THEN audit[CHOOSE j \in before : \A k \in before : k <= j].enabled
     ELSE IF Toggles(id) # {}
       THEN audit[CHOOSE j \in Toggles(id) : \A k \in Toggles(id) : j <= k].was
     ELSE findById(id)[1].enabled

\* Entry i of audit is a join that handle evaluated.
JoinAt(i) ==
  audit[i].op = "handle" /\ audit[i].kind = "join" /\ ~audit[i].lookupFailed

\* Rule r as it was when entry i of audit was made.
RuleAt(i, r) == [r EXCEPT !.enabled = EnabledAt(i, r.id)]

\* C19: the rules are read at every evaluation. A join makes an intent of a
\* rule only if the rule matches it and was enabled when the event came,
\* whatever toggleRule wrote before that: none once the rule is disabled,
\* one again once it is enabled again; and every rule that matches and was
\* enabled then has an intent for its destination.
C19_RulesReadAtEachEvent ==
  \A i \in DOMAIN audit :
    JoinAt(i) =>
      \A k \in DOMAIN rules :
        /\ rules[k].id \in audit[i].by => Matches(RuleAt(i, rules[k]), audit[i])
        /\ Matches(RuleAt(i, rules[k]), audit[i]) =>
             \E m \in DOMAIN rules :
               /\ rules[m].id \in audit[i].by
               /\ rules[m].notificationChannelId = rules[k].notificationChannelId

\* Witness: a rule was disabled, a join it would have matched made no intent,
\* the rule was enabled again, and the next such join was delivered.
C19_DeliveredAfterReenabling ==
  \E i, j, k, l \in DOMAIN audit, r \in DOMAIN rules :
    /\ i < j /\ j < k /\ k < l
    /\ i \in Toggles(rules[r].id) /\ audit[i].was /\ ~audit[i].enabled
    /\ JoinAt(j) /\ Matches([rules[r] EXCEPT !.enabled = TRUE], audit[j])
    /\ audit[j].by = {}
    /\ k \in Toggles(rules[r].id) /\ ~audit[k].was /\ audit[k].enabled
    /\ JoinAt(l) /\ audit[l].by = {rules[r].id}
    /\ \E id \in DOMAIN calls :
         /\ calls[id].payload.ruleId = rules[r].id
         /\ calls[id].payload.userId = audit[l].userId
         /\ calls[id].result = "sent"

\* The step is a createRule for owner g.
CreatedFor(g) ==
  /\ Len(audit') = Len(audit) + 1
  /\ audit'[Len(audit')].op = "createRule"
  /\ audit'[Len(audit')].guildId = g

RulesOf(g) == {i \in DOMAIN rules : rules[i].guildId = g}

\* C20: createRule for an owner that has 50 or more rules, the disabled
\* ones counted, fails with RuleLimitExceededError when its input is valid
\* (with RuleValidationError otherwise) and writes nothing: the table is as
\* it was.
C20_LimitExceededWritesNothing ==
  [][\A g \in Owners :
       (CreatedFor(g) /\ Cardinality(RulesOf(g)) >= RULES_PER_GUILD_LIMIT) =>
         /\ rules' = rules
         /\ audit'[Len(audit')].error =
              IF audit'[Len(audit')].violations = <<>> THEN "RuleLimitExceededError"
              ELSE "RuleValidationError"]_vars

\* Witness: an owner with disabled rules among its 50, the last of them just
\* created, was refused one more.
C20_RefusedAtFifty ==
  \E i, j \in DOMAIN audit, g \in Owners :
    /\ i < j
    /\ audit[i].op = "createRule" /\ audit[i].guildId = g /\ audit[i].error = "none"
    /\ audit[j].op = "createRule" /\ audit[j].guildId = g
    /\ audit[j].error = "RuleLimitExceededError"
    /\ Cardinality(RulesOf(g)) = RULES_PER_GUILD_LIMIT
    /\ \E k \in RulesOf(g) : ~rules[k].enabled

\* C21: whatever calls of createRule, updateRule, toggleRule and deleteRule
\* were made, and however they took turns at their awaits, no owner has more
\* than 50 rules in the store.
C21_AtMostFiftyPerOwner ==
  \A g \in Owners : Cardinality(RulesOf(g)) <= RULES_PER_GUILD_LIMIT

\* The step settles a call of op; Outcome is its entry in audit.
SettledNow(op) ==
  /\ Len(audit') = Len(audit) + 1
  /\ audit'[Len(audit')].op = op

Outcome == audit'[Len(audit')]

\* The field constraints of a rule that an input breaks, by the message that
\* reports each: the name has 1 to 50 characters, there are 1 to 10 watched
\* channels and at most 50 target users, and every identifier is a snowflake
\* (blanks around a string do not count); for createRule, the guild too.
Breaks(broken, message) == IF broken THEN {message} ELSE {}

BrokenFields(input) ==
  Breaks(Len(trim(input.name)) \notin 1..50,
         "name must be between 1 and 50 characters.")
  \cup Breaks(Len(input.watchedVoiceChannelIds) \notin 1..10,
              "watchedVoiceChannelIds must contain between 1 and 10 items.")
  \cup Breaks(\E i \in DOMAIN input.watchedVoiceChannelIds :
                trim(input.watchedVoiceChannelIds[i]) \notin Snowflakes,
              "watchedVoiceChannelIds must contain valid snowflake IDs.")
  \cup Breaks(Len(input.targetUserIds) > 50,
              "targetUserIds must not exceed 50 items.")
  \cup Breaks(\E i \in DOMAIN input.targetUserIds :
                trim(input.targetUserIds[i]) \notin Snowflakes,
              "targetUserIds must contain valid snowflake IDs.")
  \cup Breaks(trim(input.notificationChannelId) \notin Snowflakes,
              "notificationChannelId must be a valid snowflake ID.")

Broken(input) ==
  BrokenFields(input)
  \cup Breaks(trim(input.guildId) \notin Snowflakes,
              "guildId must be a valid snowflake ID.")

\* C22: createRule with an input that breaks a field constraint fails with
\* RuleValidationError, whose violations name every constraint the input
\* breaks and no other, and it fails in the turn it was called, before any
\* statement of the repository: no count, no write.
C22_EveryViolationBeforeTheStore ==
  [][(SettledNow("createRule") /\ Broken(Outcome.args.input) # {}) =>
       /\ Outcome.error = "RuleValidationError"
       /\ Range(Outcome.violations) = Broken(Outcome.args.input)
       /\ Outcome.queries = 0
       /\ pending' = pending
       /\ rules' = rules]_vars

\* Witness: createRule reported all seven constraints broken at once.
C22_SevenViolations ==
  \E j \in DOMAIN audit :
    /\ audit[j].op = "createRule"
    /\ audit[j].error = "RuleValidationError"
    /\ Cardinality(Range(audit[j].violations)) = 7
    /\ audit[j].queries = 0

C24_UpdateReplacesMutableFields ==
  [][SettledNow("updateRule") =>
       LET id == Outcome.args.id
           input == Outcome.args.input
           valid == BrokenFields(input) = {}
       IN IF Len(Outcome.read) = 0
            THEN Outcome.error = "RuleNotFoundError" /\ rules' = rules
          ELSE IF ~valid
            THEN Outcome.error = "RuleValidationError" /\ rules' = rules
          ELSE IF RowsOf(id) = {}
            THEN Outcome.error \notin {"none", "RuleNotFoundError"} /\ rules' = rules
          ELSE /\ Outcome.error = "none"
               /\ Outcome.at > 0
               /\ DOMAIN rules' = DOMAIN rules
               /\ \A i \in DOMAIN rules :
                    rules'[i] =
                      IF rules[i].id = id
                        THEN [rules[i] EXCEPT
                                !.name = trim(input.name),
                                !.watchedVoiceChannelIds =
                                  [k \in DOMAIN input.watchedVoiceChannelIds |->
                                     trim(input.watchedVoiceChannelIds[k])],
                                !.targetUserIds =
                                  [k \in DOMAIN input.targetUserIds |->
                                     trim(input.targetUserIds[k])],
                                !.notificationChannelId =
                                  trim(input.notificationChannelId),
                                !.updatedAt = Outcome.at]
                      ELSE rules[i]]_vars

\* Witness: an invalid update of a rule that is not there was answered with
\* RuleNotFoundError, and a valid update renamed a disabled rule, after its
\* creation, next to another rule.
C24_UpdatedBesideAnother ==
  \E j, k \in DOMAIN audit :
    /\ audit[j].op = "updateRule" /\ audit[j].error = "RuleNotFoundError"
    /\ audit[j].args.input.name = " "
    /\ audit[k].op = "updateRule" /\ audit[k].error = "none"
    /\ findById(audit[k].args.id) = audit[k].value
    /\ audit[k].value[1].name = "Renamed"
    /\ ~audit[k].value[1].enabled
    /\ audit[k].value[1].updatedAt > audit[k].value[1].createdAt
    /\ Len(rules) = 2

\* The ids of the rules in a list.
Ids(list) == {list[i].id : i \in DOMAIN list}

\* C25: deleteRule for an id that findById did not find fails with
\* RuleNotFoundError and writes nothing. For a rule it found it succeeds and
\* removes the row and no other: no row has the id afterwards (findById
\* finds none), the owner has one rule fewer, and no getApplicableRules
\* from then on returns the rule.
C25_DeleteRemovesTheRule ==
  [][/\ SettledNow("deleteRule") =>
          LET id == Outcome.args.id
          IN IF Len(Outcome.read) = 0
               THEN Outcome.error = "RuleNotFoundError" /\ rules' = rules
             ELSE /\ Outcome.error = "none"
                  /\ rules' = SelectSeq(rules, LAMBDA r : r.id # id)
                  /\ RowsOf(id) # {} =>
                       \A g \in Owners :
                         Cardinality({i \in DOMAIN rules' : rules'[i].guildId = g}) =
                           Cardinality(RulesOf(g))
                             - (IF g = Outcome.read[1].guildId THEN 1 ELSE 0)
     /\ \A j \in DOMAIN audit' :
          (audit'[j].op = "deleteRule" /\ audit'[j].error = "none") =>
            /\ \A i \in DOMAIN rules' : rules'[i].id # audit'[j].args.id
            /\ \A k \in DOMAIN audit' :
                 (k > j /\ audit'[k].op = "getApplicableRules") =>
                   audit'[j].args.id \notin Ids(audit'[k].value)]_vars

\* Witness: an enabled rule was deleted, and the join it would have matched
\* found no rule of that id.
C25_DeletedRuleMatchesNoJoin ==
  \E j, k \in DOMAIN audit :
    /\ j < k
    /\ audit[j].op = "deleteRule" /\ audit[j].error = "none"
    /\ audit[k].op = "getApplicableRules"
    /\ Matches(audit[j].read[1], audit[k].args)
    /\ audit[j].args.id \notin Ids(audit[k].value)
    /\ findById(audit[j].args.id) = <<>>

\* C26: deleteRule of the repository for an id no row has fails with a
\* not-found error and leaves the table as it was.
C26_RepositoryDeleteAbsentFails ==
  [][(SettledNow("repository.deleteRule") /\ RowsOf(Outcome.args.id) = {}) =>
       /\ Outcome.error = "RuleNotFoundError"
       /\ rules' = rules]_vars

\* What two toggles of a rule, the second reading what the first returned,
\* leave: an explicit value twice is the value once, no value twice is the
\* state before the first.
TogglesInARow(log) ==
  \A j, k \in DOMAIN log :
    ( /\ j < k
      /\ log[j].op = "toggleRule" /\ log[j].error = "none"
      /\ log[k].op = "toggleRule" /\ log[k].error = "none"
      /\ log[k].args.id = log[j].args.id
      /\ log[k].args.enabled = log[j].args.enabled
      /\ log[k].read[1].enabled = log[j].value[1].enabled ) =>
        log[k].value[1].enabled =
          IF log[j].args.enabled.given THEN log[j].value[1].enabled
          ELSE log[j].read[1].enabled

\* C27: toggleRule for an id that findById did not find fails with
\* RuleNotFoundError and writes nothing. For a rule it found (and that is
\* still there) it sets enabled to the explicit value when one is given and
\* to the negation of the value it read otherwise, refreshes updatedAt and
\* changes nothing else; so a repeated explicit toggle changes nothing more
\* and two toggles without a value restore the state.
C27_ToggleSetsOrFlips ==
  [][/\ SettledNow("toggleRule") =>
          LET id == Outcome.args.id
              enabled == Outcome.args.enabled
          IN IF Len(Outcome.read) = 0
               THEN Outcome.error = "RuleNotFoundError" /\ rules' = rules
             ELSE RowsOf(id) # {} =>
                    /\ Outcome.error = "none"
                    /\ DOMAIN rules' = DOMAIN rules
                    /\ \A i \in DOMAIN rules :
                         rules'[i] =
                           IF rules[i].id = id
                             THEN [rules[i] EXCEPT
                                     !.enabled = IF enabled.given THEN enabled.value
                                                 ELSE ~Outcome.read[1].enabled,
                                     !.updatedAt = Outcome.at]
                           ELSE rules[i]
                    /\ Outcome.value =
                         SelectSeq(rules', LAMBDA r : r.id = id)
     /\ TogglesInARow(audit')]_vars

\* Witness: a rule was toggled twice without a value, one call after the
\* other, and is in the state it had.
C27_ToggledTwiceRestored ==
  \E j, k \in DOMAIN audit :
    /\ j < k
    /\ audit[j].op = "toggleRule" /\ audit[j].error = "none"
    /\ audit[k].op = "toggleRule" /\ audit[k].error = "none"
    /\ ~audit[j].args.enabled.given /\ ~audit[k].args.enabled.given
    /\ audit[k].read = audit[j].value
    /\ audit[j].value[1].enabled # audit[j].read[1].enabled
    /\ findById(audit[j].args.id) = audit[k].value
    /\ audit[k].value[1].enabled = audit[j].read[1].enabled

\* C28: a toggleRule whose findById found the rule, but whose update then
\* changed no row (the rule was deleted in between), fails with
\* RuleRepositoryConflictError, and with nothing else.
C28_VanishedRuleIsAConflict ==
  [][(/\ SettledNow("toggleRule")
      /\ Len(Outcome.read) > 0
      /\ RowsOf(Outcome.args.id) = {}) =>
       /\ Outcome.error = "RuleRepositoryConflictError"
       /\ Outcome.value = <<>>
       /\ rules' = rules]_vars

\* Witness: deleteRule removed a rule between the findById and the update of
\* a toggleRule, which failed with the conflict.
C28_DeletedBetweenCheckAndWrite ==
  \E j, k \in DOMAIN audit :
    /\ j < k
    /\ audit[j].op = "deleteRule" /\ audit[j].error = "none"
    /\ audit[k].op = "toggleRule"
    /\ audit[k].args.id = audit[j].args.id
    /\ Len(audit[k].read) = 1
    /\ audit[k].error = "RuleRepositoryConflictError"

\* A list returned by a query holds exactly the rows of the table that
\* satisfy wanted, each once, by created_at ascending.
Returns(list, wanted(_)) ==
  /\ Range(list) = {rules[i] : i \in {j \in DOMAIN rules : wanted(rules[j])}}
  /\ Len(list) = Cardinality(Range(list))
  /\ \A a, b \in DOMAIN list : a < b => list[a].createdAt <= list[b].createdAt

\* C29: getApplicableRules(guild, channel, user) returns exactly the rules
\* of that guild that are enabled, watch the channel and have no target
\* users or have the user among them, in created_at order; so never a
\* disabled rule, a rule of another guild, or a rule whose non-empty target
\* list lacks the user.
C29_ApplicableRulesExactly ==
  \A k \in DOMAIN audit :
    audit[k].op = "getApplicableRules" =>
      /\ audit[k].error = "none"
      /\ Returns(audit[k].value, LAMBDA r : Matches(r, audit[k].args))
      /\ \A i \in DOMAIN audit[k].value :
           LET r == audit[k].value[i]
           IN /\ r.enabled
              /\ r.guildId = audit[k].args.guildId
              /\ audit[k].args.voiceChannelId \in Range(r.watchedVoiceChannelIds)
              /\ r.targetUserIds # <<>> =>
                   audit[k].args.userId \in Range(r.targetUserIds)

\* Witness: of two enabled rules of the guild that watch the channel, the
\* query returned the one without target users and left out the one whose
\* target users lack the user.
C29_TargetedRuleLeftOut ==
  \E k \in DOMAIN audit :
    /\ audit[k].op = "getApplicableRules"
    /\ Len(audit[k].value) = 1
    /\ audit[k].value[1].targetUserIds = <<>>
    /\ \E i \in DOMAIN rules :
         /\ rules[i].guildId = audit[k].args.guildId
         /\ rules[i].enabled
         /\ audit[k].args.voiceChannelId \in Range(rules[i].watchedVoiceChannelIds)
         /\ rules[i].targetUserIds # <<>>
         /\ audit[k].args.userId \notin Range(rules[i].targetUserIds)

\* C30: listRules(guild, includeDisabled) returns exactly the enabled rules
\* of the guild when includeDisabled is false and exactly all rules of the
\* guild, enabled and disabled, when it is true; never a rule of another
\* guild.
C30_ListRulesByOwner ==
  \A k \in DOMAIN audit :
    audit[k].op = "listRules" =>
      /\ audit[k].error = "none"
      /\ Returns(audit[k].value,
                 LAMBDA r : /\ r.guildId = audit[k].args.guildId
                            /\ (audit[k].args.includeDisabled \/ r.enabled))
      /\ \A i \in DOMAIN audit[k].value :
           audit[k].value[i].guildId = audit[k].args.guildId

\* Witness: with includeDisabled the list held a disabled rule of the guild,
\* while the table also held a rule of the other guild.
C30_DisabledListedOtherOwnerNot ==
  \E k \in DOMAIN audit :
    /\ audit[k].op = "listRules"
    /\ audit[k].args.includeDisabled
    /\ \E i \in DOMAIN audit[k].value : ~audit[k].value[i].enabled
    /\ \E i \in DOMAIN rules : rules[i].guildId # audit[k].args.guildId

\* The place of the row of id in the table: rows are kept in the order of
\* their insertion.
RowidOf(id) == CHOOSE i \in DOMAIN rules : rules[i].id = id

\* C31: the lists of an owner's rules (all of them, or the enabled ones)
\* are in the order of creation: of two rules in a list the one created
\* earlier comes first, whatever creates, updates, toggles and deletes went
\* before, and also when both carry the same created_at.
C31_ListedInCreationOrder ==
  [][SettledNow("listRules") =>
       \A a, b \in DOMAIN Outcome.value :
         a < b => RowidOf(Outcome.value[a].id) < RowidOf(Outcome.value[b].id)]_vars

\* The rows of table a read of the repository selects.
Selected(entry) ==
  {i \in DOMAIN table :
     IF entry.op = "repository.findById" THEN table[i].id = entry.args.id
     ELSE /\ table[i].guild_id = entry.args.guildId
          /\ (entry.op = "repository.findEnabledByGuild" => table[i].enabled = 1)}

\* The list a text of a list column stands for: the empty list when the
\* text is no JSON or no array.
ListOf(text) == IF text \in {NotJson, NotArray} THEN <<>> ELSE text.items

\* C32: findById, findByGuild and findEnabledByGuild throw nothing whatever
\* the list columns hold, and return every selected row once: a list column
\* that is no JSON array is read as the empty list, every other column of
\* that row and every other row is read as stored.
C32_MalformedListReadAsEmpty ==
  \A k \in DOMAIN audit :
    audit[k].op \in {"repository.findById", "repository.findByGuild",
                     "repository.findEnabledByGuild"} =>
      /\ audit[k].error = "none"
      /\ Len(audit[k].value) = Cardinality(Selected(audit[k]))
      /\ \A i \in Selected(audit[k]) :
           \E j \in DOMAIN audit[k].value :
             audit[k].value[j] =
               [id |-> table[i].id, guildId |-> table[i].guild_id,
                name |-> table[i].name,
                watchedVoiceChannelIds |-> ListOf(table[i].watched_voice_channel_ids),
                targetUserIds |-> ListOf(table[i].target_user_ids),
                notificationChannelId |-> table[i].notification_channel_id,
                enabled |-> (table[i].enabled = 1),
                createdAt |-> table[i].created_at.iso,
                updatedAt |-> table[i].updated_at.iso]

\* Witness: findByGuild returned two rules, one of a row whose two list
\* columns are no array (the one no JSON at all), read as empty lists, and
\* one with both lists as stored.
C32_MalformedBesideIntact ==
  \E k \in DOMAIN audit :
    /\ audit[k].op = "repository.findByGuild"
    /\ Len(audit[k].value) = 2
    /\ \E i, j \in DOMAIN table :
         /\ table[i].watched_voice_channel_ids = NotJson
         /\ table[i].target_user_ids = NotArray
         /\ table[j].watched_voice_channel_ids = JSONstringify(<<"v1">>)
         /\ table[j].target_user_ids = JSONstringify(<<"u1">>)
         /\ \E a, b \in DOMAIN audit[k].value :
              /\ audit[k].value[a].id = table[i].id
              /\ audit[k].value[a].watchedVoiceChannelIds = <<>>
              /\ audit[k].value[a].targetUserIds = <<>>
              /\ audit[k].value[b].id = table[j].id
              /\ audit[k].value[b].watchedVoiceChannelIds = <<"v1">>
              /\ audit[k].value[b].targetUserIds = <<"u1">>

\* The remote calls of one sendNotification, in the order of the code.
StepOrder == <<"fetchGuild", "fetchVoiceChannel", "fetchMember",
               "fetchNotificationChannel">>

\* A lookup answered with an error, or with something of the wrong kind.
LookupFailed(a) == a.step \in Lookups /\ a.answer.kind \in {"error", "other"}

\* C33: the remote calls of a sendNotification are, in this order, the
\* lookup of the guild, of the voice channel, of the member and of the
\* destination channel, then the sends; a lookup that fails, for good or
\* not, is the last remote call of its sendNotification: the call settles
\* with no further lookup and no send.
C33_ResolutionInOrderAndShortCircuit ==
  \A id \in DOMAIN trace :
    /\ \A k \in DOMAIN Answers(id) :
         /\ Answers(id)[k].step = IF k <= Len(StepOrder) THEN StepOrder[k] ELSE "send"
         /\ LookupFailed(Answers(id)[k]) =>
              /\ k = Len(Answers(id))
              /\ Settled(calls[id])
              /\ calls[id].sends = 0
    /\ calls[id].sends > 0 =>
         /\ Len(Answers(id)) >= Len(StepOrder)
         /\ \A k \in 1..Len(StepOrder) : ~LookupFailed(Answers(id)[k])
    /\ (~Settled(calls[id]) /\ Len(Answers(id)) < Len(StepOrder)) =>
         calls[id].pc = StepOrder[Len(Answers(id)) + 1]

\* Witness: a call whose guild and voice channel were found and whose member
\* lookup failed has settled without a further lookup or a send.
C33_StoppedAtMember ==
  \E id \in DOMAIN trace :
    /\ Len(Answers(id)) = 3
    /\ LookupFailed(Answers(id)[3])
    /\ ~LookupFailed(Answers(id)[1]) /\ ~LookupFailed(Answers(id)[2])
    /\ calls[id].pc = "rejected"
    /\ calls[id].sends = 0

\* The keys the step puts into recentNotifications.
MarkedNow ==
  {k \in DOMAIN recentNotifications' : k \notin DOMAIN recentNotifications}

\* The step gave call id the answer that ends it with a mark: a message
\* sent, or a lookup failed for good.
EndsWithMark(id) ==
  /\ id \in DOMAIN trace /\ id \in DOMAIN trace'
  /\ Len(trace'[id].answers) = Len(trace[id].answers) + 1
  /\ LET last == trace'[id].answers[Len(trace'[id].answers)]
     IN \/ last.step = "send" /\ last.answer.kind = "sent"
        \/ /\ last.step \in Lookups
           /\ FailureKind(last.answer) \in {"notFound", "accessDenied", "wrongType"}

\* C34: a key enters recentNotifications only in the step in which a call
\* for it has sent its message or has met a permanent failure of a lookup.
\* A call that rejects because its send failed (an error that is not
\* retried, or the last attempt failed too) leaves its key out of the map,
\* and the next call for the same key, at whatever time, is not suppressed:
\* it starts with the lookup of the guild.
C34_FailedSendLeavesKeyUnmarked ==
  [][/\ \A k \in MarkedNow :
          \E id \in DOMAIN calls : calls[id].key = k /\ EndsWithMark(id)
     /\ \A id \in DOMAIN calls :
          (/\ id \in DOMAIN calls'
           /\ calls[id].pc = "send"
           /\ calls'[id].pc = "rejected") =>
             /\ calls'[id].result = "send"
             /\ calls[id].key \notin DOMAIN recentNotifications'
     /\ \A id \in DOMAIN calls' \ DOMAIN calls :
          (/\ Len(audit) > 0
           /\ audit[Len(audit)].key = calls'[id].key
           /\ audit[Len(audit)].pc = "rejected"
           /\ audit[Len(audit)].result = "send") =>
             /\ calls'[id].pc = "fetchGuild"
             /\ calls'[id].result = "none"]_vars

\* Witness: the call before this one, for the same key, rejected after its
\* second send failed; this one has resolved everything again and is
\* waiting for the answer to its send.
C34_SentAgainAfterFailedSend ==
  /\ Len(audit) > 0
  /\ audit[Len(audit)].pc = "rejected"
  /\ audit[Len(audit)].result = "send"
  /\ audit[Len(audit)].sends = maxRetries + 1
  /\ \E id \in DOMAIN calls :
       /\ calls[id].key = audit[Len(audit)].key
       /\ calls[id].pc = "send"
       /\ Len(Answers(id)) = Len(StepOrder)

\* C35: each key of recentNotifications has exactly one pending timer, the
\* one the map holds for it, and every pending timer is the one of a key of
\* the map. A key marked again while it is in the map keeps a single timer,
\* set to the whole window: from the latest mark of a triple its key stays
\* in the map until a whole window has passed, whatever was left of the
\* timer of an earlier mark, and no longer.
C35_OneTimerPerKeyFullWindow ==
  /\ \A key \in DOMAIN recentNotifications :
       /\ recentNotifications[key] \in DOMAIN timers
       /\ timers[recentNotifications[key]].key = key
  /\ \A h \in DOMAIN timers :
       /\ timers[h].key \in DOMAIN recentNotifications
       /\ \A g \in DOMAIN timers : timers[g].key = timers[h].key => g = h
  /\ \A t \in DOMAIN markAge :
       /\ markAge[t].age < TtlTicks => KeyOf(t) \in DOMAIN recentNotifications
       /\ KeyOf(t) \in DOMAIN recentNotifications =>
            timers[recentNotifications[KeyOf(t)]].left = TtlTicks - markAge[t].age
  /\ \A key \in DOMAIN recentNotifications :
       \E t \in DOMAIN markAge : KeyOf(t) = key

\* Witness: the last trackNotification found its key in the map with a timer
\* that was due, and the key now has one timer with the whole window left.
C35_RemarkedOverDueTimer ==
  /\ Len(audit) > 0
  /\ audit[Len(audit)].existing
  /\ audit[Len(audit)].left = 0
  /\ audit[Len(audit)].key \in DOMAIN recentNotifications
  /\ timers[recentNotifications[audit[Len(audit)].key]].left = TtlTicks
  /\ Cardinality(DOMAIN timers) = 1

\* Call id was in flight when cleanup() ran, and has not returned since.
InFlightAtCleanup(id) ==
  \E j \in DOMAIN audit :
    /\ audit[j].op = "cleanup"
    /\ id \in audit[j].inFlight
    /\ \A k \in DOMAIN audit :
         (k > j /\ audit[k].op = "sendNotification") => audit[k].id # id

\* C36: cleanup() empties the map and cancels every timer but touches no
\* call: the calls in flight stay where they are and go on. When such a
\* call then has its message sent, or meets a permanent failure of a
\* lookup, it puts its key into the map with a new timer of a whole window,
\* so that timers are pending again after the cleanup.
C36_CleanupLeavesCallsInFlight ==
  [][/\ (~cleanedUp /\ cleanedUp') =>
          /\ calls' = calls
          /\ recentNotifications' = <<>>
          /\ timers' = <<>>
     /\ \A id \in DOMAIN calls :
          (/\ InFlightAtCleanup(id)
           /\ id \in DOMAIN calls'
           /\ ~Settled(calls[id])
           /\ calls'[id].pc = "resolved") =>
             /\ calls[id].key \in DOMAIN recentNotifications'
             /\ recentNotifications'[calls[id].key] \in DOMAIN timers'
             /\ timers'[recentNotifications'[calls[id].key]].left = TtlTicks]_vars

\* Witness: a call that had not got the answer to its send when cleanup()
\* ran has delivered its message since; its key is in the map and its timer
\* is pending.
C36_TimerPendingAfterCleanup ==
  \E id \in DOMAIN calls :
    /\ InFlightAtCleanup(id)
    /\ calls[id].pc = "resolved"
    /\ calls[id].result = "sent"
    /\ calls[id].key \in DOMAIN recentNotifications
    /\ DOMAIN timers # {}

\* C37: what suppresses the intent of a join is a message delivered less
\* than a window ago for the same destination, user and watched channel,
\* whatever events came between: the intent of a user who left and joined
\* the same channel again inside the window makes no remote request and
\* sends nothing. An intent is suppressed only by a mark of its own triple
\* that is not more than a window old: a delivery for another user, or for
\* the same user in another watched channel, suppresses nothing, and the
\* intent of a triple never marked is delivered. An event that is no join
\* makes no intent.
C37_SuppressedByJoinIdentity ==
  /\ \A id \in DOMAIN calls :
       /\ calls[id].start = [why |-> "sent", phase |-> "in"] =>
            /\ calls[id].pc = "resolved"
            /\ calls[id].result = "duplicate"
            /\ calls[id].sends = 0
       /\ calls[id].result = "duplicate" =>
            /\ calls[id].start.why = "sent"
            /\ calls[id].start.phase \in {"in", "due"}
       /\ (calls[id].start.why = "none" /\ Settled(calls[id])) =>
            /\ calls[id].result \in {"sent", "resent"}
            /\ calls[id].sends = 1
  /\ \A i \in DOMAIN audit : audit[i].kind # "join" => audit[i].by = {}

\* Witness: a user joined a watched channel and the destination was
\* notified; the user left and joined the channel again, and this last
\* join, still inside the window, was suppressed.
C37_RejoinSuppressed ==
  \E i, j \in DOMAIN audit, id \in DOMAIN calls :
    /\ i < j /\ j < Len(audit)
    /\ audit[i].kind = "join" /\ audit[i].by # {}
    /\ audit[j].kind = "leave" /\ audit[j].userId = audit[i].userId
    /\ audit[Len(audit)].kind = "join"
    /\ audit[Len(audit)].userId = audit[i].userId
    /\ audit[Len(audit)].voiceChannelId = audit[i].voiceChannelId
    /\ calls[id].payload.userId = audit[i].userId
    /\ calls[id].payload.voiceChannelId = audit[i].voiceChannelId
    /\ calls[id].start = [why |-> "sent", phase |-> "in"]
    /\ calls[id].result = "duplicate"

\* C38: for a join, getApplicableRules and the filter of handle return
\* every enabled rule of the guild whose stored watched list is an array
\* with the channel and whose stored target list is no array, whoever the
\* user is, and never a rule whose stored watched list is no array.
C38_MalformedTargetsMatchAll ==
  \A k \in DOMAIN audit :
    audit[k].op \in {"getApplicableRules", "filterApplicableRules"} =>
      \A i \in DOMAIN table :
        (table[i].guild_id = audit[k].args.guildId /\ table[i].enabled = 1) =>
          /\ ( /\ table[i].target_user_ids \in {NotJson, NotArray}
               /\ table[i].watched_voice_channel_ids \notin {NotJson, NotArray}
               /\ audit[k].args.voiceChannelId
                    \in Range(table[i].watched_voice_channel_ids.items) ) =>
                table[i].id \in Ids(audit[k].value)
          /\ table[i].watched_voice_channel_ids \in {NotJson, NotArray} =>
                table[i].id \notin Ids(audit[k].value)

\* Witness: for the join of a user no stored list names, the filter of
\* handle returned the rule whose target list is no JSON and left out the
\* enabled rule of the guild whose watched list is no JSON.
C38_MalformedTargetsMatched ==
  \E k \in DOMAIN audit, i, j \in DOMAIN table :
    /\ audit[k].op = "filterApplicableRules"
    /\ audit[k].args.userId = "u2"
    /\ table[i].target_user_ids = NotJson
    /\ table[j].watched_voice_channel_ids = NotJson
    /\ table[j].guild_id = audit[k].args.guildId /\ table[j].enabled = 1
    /\ Ids(audit[k].value) = {table[i].id}

\* C39: a sendNotification call never makes more than 3 send attempts,
\* whatever channel.send answers, and when remote calls return and delays
\* fire every call that began ends resolved or rejected.
C39_RetryBoundedAndSettles ==
  /\ [](\A id \in DOMAIN calls : calls[id].sends <= 3)
  /\ \A id \in SettleIds :
       (id \in DOMAIN calls) ~> (id \in DOMAIN calls /\ Settled(calls[id]))

\* Witness: after a call that resolved on its second send, a call got a
\* rate limit, waited, got an error that is not retriable and is rejected
\* after 2 sends.
C39_SettledAfterMixedFailures ==
  /\ \E j \in DOMAIN audit :
       /\ audit[j].op = "sendNotification"
       /\ audit[j].pc = "resolved" /\ audit[j].sends = 2
  /\ \E id \in DOMAIN calls :
       /\ calls[id].pc = "rejected" /\ calls[id].sends = 2
       /\ Len(SendAnswers(id)) = 2
       /\ isRateLimitError(SendAnswers(id)[1].error)
       /\ SendAnswers(id)[2].kind = "error"
       /\ ~isRetriableError(SendAnswers(id)[2].error)
====
